---- MODULE Spec2Model ----
(***************************************************************************)
(* Model of select/signal-to-youtube-playlist: the reconciliation of local *)
(* video identifiers against the remote playlist and the blacklist         *)
(* (findNewVideos) and the sequential, rate-limited addition of the new    *)
(* videos (addVideosSequentially), for the three update scripts:           *)
(*   "signal"     src/src/update.ts           (no blacklist)               *)
(*   "signalMeta" src/unnamed/part_004        (metadata + blacklist)       *)
(*   "whatsapp"   src/src/update-whatsapp.ts  (WhatsApp export + blacklist)*)
(*                                                                         *)
(* Also modelled, each as a function applied on its own: the               *)
(* deduplications (deduplicateMetadata, deduplicateEntries) and the link   *)
(* extraction (extractYouTubeLinksFromMessages).                           *)
(*                                                                         *)
(* Strings that the code inspects with String.includes are modelled as     *)
(* sequences of tokens; Includes looks for a token.                        *)
(***************************************************************************)
EXTENDS Integers, Sequences, FiniteSets, TLC

\* ------------------------------------------------------------------ bounds

\* longest sequence of extracted video ids of a run
MaxLocal == 2
\* longest local sequence handed to findNewVideos on its own
MaxRecLen == 3
\* longest metadata array handed to a deduplication on its own
MaxEntries == 3
\* longest message array handed to extractYouTubeLinksFromMessages
MaxMessages == 2

\* the video identifiers of the model
VideoIds == {"a", "b", "c"}

SeqsUpTo(S, n) == UNION {[1..k -> S] : k \in 0..n}

\* ------------------------------------------------------------- state

VARIABLES
  pipeline,            \* which update script runs
  pc,                  \* position of the run (the await it is suspended at)
  playlist,            \* the remote playlist's video ids (remote truth)
  extractedVideoIds,   \* video ids the chat source yields, with repeats
  blacklistFile,       \* data/video-blacklist.json on disk
  existingVideoIds,    \* loadExistingVideos' snapshot
  localVideoIds,       \* signalVideoIds / whatsappVideoIds
  blacklistedVideoIds, \* loadBlacklist's set
  newVideoIds,         \* checkNewVideos' list, the Committer's input
  index,               \* addNext's index (0-based, as in the code)
  results,             \* addVideosSequentially's results array
  result,              \* processVideoAddition's result of the current candidate
  videoInfo,           \* getVideoInfo's answer for the current candidate
  pending,             \* remote requests and timers not yet settled
  trace,               \* history: every request/timer issued and settled
  exitCode,            \* process exit status (-1 while running)
  env,                 \* which required environment variables are set
  stageLog,            \* history: the steps of the run that touch the outside
  printedStats,               \* the statistics the run printed (NoStats: none)
  run,                 \* "first" run, or the "retry" after it was terminated
  insertedEarlier,     \* what the terminated run had added to the playlist
  recPc, recVariant, recLocal, recRemote, recExcluded, recOut,
                       \* findNewVideos applied on its own
  dedupPc, dedupVariant, dedupIn, dedupOut, dedupAgain,
                       \* a deduplication applied on its own, twice
  aggPc, aggMessages, aggSplit, aggLastIndex, aggWhole, aggFirst, aggSecond,
                       \* extractYouTubeLinksFromMessages applied to a batch
                       \* and to its two parts; the regexes' lastIndex
  extLastIndex, extCalls,
                       \* the shared youTubeRegexes' lastIndex and the calls
                       \* made on them so far
  parsePc, parseLine, parseSkip, parseOut, parseLinks,
                       \* parseWhatsAppLine applied to one line, and the
                       \* links extracted from what it returned
  rdLines, rdBatchSize, rdOptions, rdEmitted, rlPaused, rlClosed, currentBatch,
  batchNumber, rdAwaiting, rdBatches, rdResolved, totalMessages,
  youTubeMessages, allYouTubeLinks,
                       \* procesFileInBatches under extractYouTubeLinksBatch
  statPc, statResults, statOut,
                       \* calculateStats applied to a result list
  pgPc, pgRemote, pgPageToken, pgRequests, accumulated, pgVideoIds
                       \* getPlaylistVideoIds listing a paged playlist

runVars == <<pipeline, pc, playlist, extractedVideoIds, blacklistFile,
             existingVideoIds, localVideoIds, blacklistedVideoIds, newVideoIds,
             index, results, result, videoInfo, pending, trace, exitCode,
             env, stageLog, printedStats, run, insertedEarlier>>
recVars == <<recPc, recVariant, recLocal, recRemote, recExcluded, recOut>>
dedupVars == <<dedupPc, dedupVariant, dedupIn, dedupOut, dedupAgain>>
aggVars == <<aggPc, aggMessages, aggSplit, aggLastIndex, aggWhole, aggFirst,
             aggSecond>>
extVars == <<extLastIndex, extCalls>>
parseVars == <<parsePc, parseLine, parseSkip, parseOut, parseLinks>>
readerVars == <<rdLines, rdBatchSize, rdOptions, rdEmitted, rlPaused, rlClosed,
                currentBatch, batchNumber, rdAwaiting, rdBatches, rdResolved,
                totalMessages, youTubeMessages, allYouTubeLinks>>
statVars == <<statPc, statResults, statOut>>
pageVars == <<pgPc, pgRemote, pgPageToken, pgRequests, accumulated,
              pgVideoIds>>
utilVars == <<extVars, parseVars, readerVars, statVars, pageVars>>
libVars == <<recVars, dedupVars, aggVars, utilVars>>
vars == <<runVars, libVars>>

\* ------------------------------------------------- strings and messages

\* String.prototype.includes on a tokenised string
Includes(message, token) == \E i \in 1..Len(message) : message[i] = token

\* ---------------------------------------------------------- Reconciler

\* update-whatsapp.ts / update-with-metadata: Array.prototype.filter keeps, in
\* order, every element that is in neither set
RECURSIVE findNewVideos(_, _, _)
findNewVideosIgnoreBlacklist(videoIds, existing, blacklisted) ==
  SelectSeq(videoIds, LAMBDA id : id \notin existing)

findNewVideosDropRepeats(videoIds, existing, blacklisted) ==
  LET keep(i) == /\ videoIds[i] \notin existing
                 /\ videoIds[i] \notin blacklisted
                 /\ \A j \in 1..(i - 1) : videoIds[j] # videoIds[i]
      F[i \in 0..Len(videoIds)] ==
        IF i = 0 THEN <<>>
        ELSE IF keep(i) THEN Append(F[i - 1], videoIds[i]) ELSE F[i - 1]
  IN F[Len(videoIds)]

findNewVideos(videoIds, existing, blacklisted) ==
  IF videoIds = <<>> THEN <<>>
  ELSE LET id == Head(videoIds)
           rest == findNewVideos(Tail(videoIds), existing, blacklisted)
       IN IF id \notin existing /\ id \notin blacklisted
          THEN <<id>> \o rest
          ELSE rest

\* update.ts: the two-parameter findNewVideos, which knows no blacklist
RECURSIVE findNewVideosBasic(_, _)
findNewVideosBasic(videoIds, existing) ==
  IF videoIds = <<>> THEN <<>>
  ELSE LET id == Head(videoIds)
           rest == findNewVideosBasic(Tail(videoIds), existing)
       IN IF id \notin existing THEN <<id>> \o rest ELSE rest

\* findNewVideos on its own, over arbitrary inputs
RecVariants == {"basic", "blacklist"}

InitRecon ==
  /\ recPc = "input"
  /\ recVariant \in RecVariants
  /\ recLocal \in SeqsUpTo(VideoIds, MaxRecLen)
  /\ recRemote \in SUBSET VideoIds
  /\ recExcluded \in IF recVariant = "basic" THEN {{}} ELSE SUBSET VideoIds
  /\ recOut = <<>>

ApplyFindNewVideos ==
  /\ recPc = "input"
  /\ recOut' = IF recVariant = "basic"
               THEN findNewVideosBasic(recLocal, recRemote)
               ELSE findNewVideos(recLocal, recRemote, recExcluded)
  /\ recPc' = "output"
  /\ UNCHANGED <<recVariant, recLocal, recRemote, recExcluded>>


\* ------------------------------------------------- remote answers

\* snippet.title of a catalog video; NoTitle is an absent or empty title
NoTitle == <<>>
Titles == {<<"Song">>, NoTitle}

\* response.data.items of videos.list: no item, or the one video asked for
ResponseItems == {<<>>} \cup {<<[title |-> t]>> : t \in Titles}

NullVideo == [found |-> FALSE, title |-> NoTitle]

\* playlist.ts getVideoInfo: response.data.items?.[0] || null
getVideoInfo(items) ==
  IF Len(items) > 0 THEN [found |-> TRUE, title |-> items[1].title]
  ELSE NullVideo

\* what a rejected remote call carries: error.code (0: none) and error.message
RemoteErrors ==
  { [code |-> 409, hasMessage |-> TRUE,  message |-> <<"Conflict">>],
    [code |-> 403, hasMessage |-> TRUE,  message |-> <<"Forbidden">>],
    [code |-> 403, hasMessage |-> TRUE,  message |-> <<"duplicate", "request">>],
    [code |-> 500, hasMessage |-> TRUE,  message |-> <<"Backend", "Error">>],
    [code |-> 0,   hasMessage |-> TRUE,  message |-> <<"Video", "is", "duplicate">>],
    [code |-> 0,   hasMessage |-> FALSE, message |-> <<>>] }

NoError == [code |-> -1, hasMessage |-> FALSE, message |-> <<>>]

\* ------------------------------------------------- AddResult

NoResult == [status |-> "none", videoId |-> "", message |-> <<>>, title |-> NoTitle]

handleBlacklistedVideo(videoId) ==
  [status |-> "skipped", videoId |-> videoId,
   message |-> <<"Video", videoId, "is", "blacklisted", "skipping">>,
   title |-> NoTitle]

handleVideoNotFound(videoId) ==
  [status |-> "skipped", videoId |-> videoId,
   message |-> <<"Video", videoId, "not", "found", "skipping">>,
   title |-> NoTitle]

handleDuplicateVideo(videoId) ==
  [status |-> "skipped", videoId |-> videoId,
   message |-> <<"Already", "exists", videoId>>,
   title |-> NoTitle]

handlePermissionError(videoId) ==
  [status |-> "error", videoId |-> videoId,
   message |-> <<"Permission", "denied", "for", videoId>>,
   title |-> NoTitle]

\* `${error}` of an undefined message prints "undefined"
handleGenericError(videoId, error) ==
  [status |-> "error", videoId |-> videoId,
   message |-> <<"Error", "adding", videoId>>
               \o (IF error.hasMessage THEN error.message ELSE <<"undefined">>),
   title |-> NoTitle]

handleSuccessfulAdd(videoId, title) ==
  [status |-> "added", videoId |-> videoId,
   message |-> <<"Added">> \o title,
   title |-> title]

\* videoInfo.snippet?.title || videoId
titleOrVideoId(info, videoId) ==
  IF info.title # NoTitle THEN info.title ELSE <<videoId>>

\* ------------------------------------------------- processVideoAddition

\* if (!videoInfo) return handleVideoNotFound(videoId)
videoInfoMissingNever(info) == FALSE

videoInfoMissing(info) == ~info.found

\* error.code === 409 || error.message?.includes("duplicate")
isDuplicateErrorCodeOnly(error) == error.code = 409

isDuplicateError(error) ==
  \/ error.code = 409
  \/ (error.hasMessage /\ Includes(error.message, "duplicate"))

\* error.code === 403
isPermissionError(error) == error.code = 403

\* the catch block of processVideoAddition: every rejection becomes a result
\* (thrown = FALSE); nothing is thrown again
catchRethrowsGeneric(videoId, error) ==
  IF isDuplicateError(error)
  THEN [thrown |-> FALSE, value |-> handleDuplicateVideo(videoId)]
  ELSE IF isPermissionError(error)
       THEN [thrown |-> FALSE, value |-> handlePermissionError(videoId)]
       ELSE [thrown |-> TRUE, value |-> handleGenericError(videoId, error)]

catchAdditionError(videoId, error) ==
  [thrown |-> FALSE,
   value  |-> IF isDuplicateError(error) THEN handleDuplicateVideo(videoId)
              ELSE IF isPermissionError(error) THEN handlePermissionError(videoId)
              ELSE handleGenericError(videoId, error)]

\* update.ts has no blacklist parameter; the other two scripts check
\* blacklistedVideoIds.has(videoId) before any remote call
isBlacklistedNever(p, videoId, blacklisted) == FALSE

isBlacklisted(p, videoId, blacklisted) ==
  p # "signal" /\ videoId \in blacklisted

\* ------------------------------------------------- pacing

RATE_LIMIT_MS == 1000

\* if (index < total - 1) await sleep(RATE_LIMIT_MS)
shouldSleepAlways(i, total) == i < total

shouldSleep(i, total) == i < total - 1

\* ------------------------------------------------- requests in flight

Request(op, videoId, i) == [op |-> op, videoId |-> videoId, index |-> i]

Event(ev, videoId, i, ms, error) ==
  [ev |-> ev, videoId |-> videoId, index |-> i, ms |-> ms, error |-> error]

\* `await p`: the continuation runs once p has settled, so the request is no
\* longer in flight when the next one is issued
AwaitNotSettled(inFlight, request) == inFlight

Await(inFlight, request) == inFlight \ {request}

\* results.push(result)
push(rs, r) == Append(rs, r)


\* ------------------------------------------------- loading

Pipelines == {"signal", "signalMeta", "whatsapp"}

\* data/video-blacklist.json: absent or unparsable, or a list of video ids
BlacklistFiles ==
  {[readable |-> FALSE, videoIds |-> {}]}
    \cup {[readable |-> TRUE, videoIds |-> ids] : ids \in SUBSET VideoIds}

\* loadVideoBlacklist: the file's ids, or the empty set when reading or
\* parsing throws
loadVideoBlacklist(file) == IF file.readable THEN file.videoIds ELSE {}

\* [...new Set(ids)]: the first occurrence of every id, in order
getUniqueVideoIdsKeepsRepeats(ids) == ids

getUniqueVideoIds(ids) ==
  SelectSeq([i \in 1..Len(ids) |->
               IF \E j \in 1..(i - 1) : ids[j] = ids[i] THEN "" ELSE ids[i]],
            LAMBDA id : id # "")

\* getPlaylistVideoIds: the set of the ids listed for the playlist
getPlaylistVideoIdsEmpty(list) == {}

getPlaylistVideoIds(list) == list

\* the order of the stages in updatePlaylist / updateWhatsApp, after
\* validateEnvVars; initializeYouTubeClient ("client") is always followed by
\* loadExistingVideos
FirstStage(p) == IF p = "whatsapp" THEN "loadLocal" ELSE "client"

AfterLoadExisting(p) == IF p = "whatsapp" THEN "loadBlacklist" ELSE "loadLocal"

AfterLoadLocal(p) ==
  CASE p = "signal"     -> "checkNew"
    [] p = "signalMeta" -> "loadBlacklist"
    [] p = "whatsapp"   -> "client"

\* ------------------------------------------------- statistics

\* update-whatsapp.ts / update-with-metadata calculateStats
calculateStats(videoIds, existing, blacklisted, rs) ==
  [total                |-> Len(videoIds),
   previouslyInPlaylist |-> Cardinality(existing),
   blacklistedVideos    |-> Cardinality({i \in 1..Len(rs) : Includes(rs[i].message, "blacklisted")}),
   newVideosAdded       |-> Cardinality({i \in 1..Len(rs) : rs[i].status = "added"}),
   skipped              |-> Cardinality({i \in 1..Len(rs) :
                                          /\ rs[i].status = "skipped"
                                          /\ ~Includes(rs[i].message, "blacklisted")}),
   errors               |-> Cardinality({i \in 1..Len(rs) : rs[i].status = "error"}),
   finalPlaylistSize    |-> Cardinality(existing)
                            + Cardinality({i \in 1..Len(rs) : rs[i].status = "added"})]

\* update.ts calculateStats
calculateStatsBasicCountsAttempts(videoIds, existing, rs) ==
  [total                |-> Len(videoIds),
   previouslyInPlaylist |-> Cardinality(existing),
   newVideosAdded       |-> Len(rs),
   skipped              |-> Cardinality({i \in 1..Len(rs) : rs[i].status = "skipped"}),
   errors               |-> Cardinality({i \in 1..Len(rs) : rs[i].status = "error"}),
   finalPlaylistSize    |-> Cardinality(existing) + Len(rs)]

calculateStatsBasic(videoIds, existing, rs) ==
  [total                |-> Len(videoIds),
   previouslyInPlaylist |-> Cardinality(existing),
   newVideosAdded       |-> Cardinality({i \in 1..Len(rs) : rs[i].status = "added"}),
   skipped              |-> Cardinality({i \in 1..Len(rs) : rs[i].status = "skipped"}),
   errors               |-> Cardinality({i \in 1..Len(rs) : rs[i].status = "error"}),
   finalPlaylistSize    |-> Cardinality(existing)
                            + Cardinality({i \in 1..Len(rs) : rs[i].status = "added"})]

\* the statistics of the run's script
RunStats(p, videoIds, existing, blacklisted, rs) ==
  IF p = "signal" THEN calculateStatsBasic(videoIds, existing, rs)
  ELSE calculateStats(videoIds, existing, blacklisted, rs)

\* checkForErrors: process.exit(1) when printedStats.errors > 0; otherwise the script
\* returns and the process ends with status 0
checkForErrorsCountsSkips(stats) == IF stats.errors + stats.skipped > 0 THEN 1 ELSE 0

checkForErrors(stats) == IF stats.errors > 0 THEN 1 ELSE 0

\* ------------------------------------------------- deduplication

\* userId: string | null
NullUserId == "<null>"
UserIds == {"u1", "null", NullUserId}

Datetimes == {100, 200}

\* WhatsAppYouTubeMetadata / YouTubeMetadata
MetadataEntries == [videoId : {"a", "b"}, userId : UserIds, datetime : Datetimes]

\* `${userId}` in a template string: null prints as "null"
userIdText(userId) == IF userId = NullUserId THEN "null" ELSE userId

\* const key = `${entry.videoId}:${entry.userId}:${entry.datetime}`
dedupKey(entry) ==
  <<entry.videoId, ":", userIdText(entry.userId), ":", entry.datetime>>

RECURSIVE filterUnseen(_, _)
\* metadata.filter(entry => seen.has(key) ? false : (seen.add(key), true))
filterUnseen(metadata, seen) ==
  IF metadata = <<>> THEN <<>>
  ELSE LET entry == Head(metadata)
           key   == dedupKey(entry)
       IN IF key \in seen
          THEN filterUnseen(Tail(metadata), seen)
          ELSE <<entry>> \o filterUnseen(Tail(metadata), seen \cup {key})

\* update-whatsapp.ts deduplicateMetadata
deduplicateMetadataKeepsAll(metadata) == metadata

deduplicateMetadata(metadata) == filterUnseen(metadata, {})

\* Map.get: the value stored under the key, if any
mapHas(map, key) == \E i \in 1..Len(map) : map[i].key = key

\* Map.set: a new key is appended (insertion order), a known key keeps its
\* place and gets the value
mapSet(map, key, value) ==
  IF mapHas(map, key)
  THEN [i \in 1..Len(map) |->
          IF map[i].key = key THEN [key |-> key, value |-> value] ELSE map[i]]
  ELSE Append(map, [key |-> key, value |-> value])

mapGet(map, key) == map[CHOOSE i \in 1..Len(map) : map[i].key = key].value

RECURSIVE reduceEntries(_, _)
\* data.reduce((map, entry) => map.set(key, !existing ? entry : existing), map)
reduceEntries(data, map) ==
  IF data = <<>> THEN map
  ELSE LET entry == Head(data)
           key   == dedupKey(entry)
       IN reduceEntries(Tail(data),
                        mapSet(map, key,
                               IF mapHas(map, key) THEN mapGet(map, key) ELSE entry))

\* Array.from(map.values())
mapValues(map) == [i \in 1..Len(map) |-> map[i].value]

Reverse(s) == [i \in 1..Len(s) |-> s[Len(s) + 1 - i]]

\* part_003 (anonymize) deduplicateEntries
deduplicateEntriesNewestFirst(data) == Reverse(mapValues(reduceEntries(data, <<>>)))

deduplicateEntries(data) == mapValues(reduceEntries(data, <<>>))

DedupVariants == {"deduplicateMetadata", "deduplicateEntries"}

Dedup(variant, data) ==
  IF variant = "deduplicateMetadata" THEN deduplicateMetadata(data)
  ELSE deduplicateEntries(data)

InitDedup ==
  /\ dedupPc = "input"
  /\ dedupVariant \in DedupVariants
  /\ dedupIn \in SeqsUpTo(MetadataEntries, MaxEntries)
  /\ dedupOut = <<>>
  /\ dedupAgain = <<>>

DedupOff ==
  /\ dedupPc = "off"
  /\ dedupVariant = "deduplicateMetadata"
  /\ dedupIn = <<>>
  /\ dedupOut = <<>>
  /\ dedupAgain = <<>>

\* the deduplication of the input
ApplyDedup ==
  /\ dedupPc = "input"
  /\ dedupOut' = Dedup(dedupVariant, dedupIn)
  /\ dedupPc' = "once"
  /\ UNCHANGED <<dedupVariant, dedupIn, dedupAgain>>

\* the deduplication of its own output
ApplyDedupAgain ==
  /\ dedupPc = "once"
  /\ dedupAgain' = Dedup(dedupVariant, dedupOut)
  /\ dedupPc' = "twice"
  /\ UNCHANGED <<dedupVariant, dedupIn, dedupOut>>

\* ------------------------------------------------- link extraction

\* A message body is a sequence of tokens: plain text, a youtu.be/<id> link,
\* a youtube.com/watch?v=<id> link, or a line break.  lastIndex counts tokens.
TextToken == [kind |-> "text", id |-> ""]
NewlineToken == [kind |-> "newline", id |-> ""]
ShortLink(id) == [kind |-> "short", id |-> id]
WatchLink(id) == [kind |-> "watch", id |-> id]

Bodies ==
  { <<>>,
    <<TextToken>>,
    <<ShortLink("a")>>,
    <<WatchLink("a")>>,
    <<ShortLink("a"), ShortLink("a")>>,
    <<WatchLink("a"), WatchLink("b")>>,
    <<WatchLink("a"), NewlineToken, WatchLink("b")>>,
    <<WatchLink("b"), TextToken, ShortLink("a")>> }

\* MessageData
Messages ==
  [body : Bodies, datetime : {100}, userId : {"u1"}]
    \cup [body : Bodies, datetime : {200}, userId : {NullUserId}]

\* youTubeRegexes, in array order: /youtu\.be\/([\w-]+)/g and
\* /youtube\.com\/watch\?.*v=([\w-]+)/g
youTubeRegexes == <<"short", "watch">>

NoMatch == [matched |-> FALSE, videoId |-> "", lastIndex |-> 0]

\* regex.exec(body) of a global regex: the first match at or after lastIndex,
\* lastIndex moved behind it; null and lastIndex 0 when there is none.  In the
\* watch pattern ".*" is greedy and does not cross a line break: the match
\* runs to the last v=<id> of the line and captures that id.
exec(regex, body, lastIndex) ==
  LET starts == {p \in (lastIndex + 1)..Len(body) : body[p].kind = regex}
  IN IF starts = {} THEN NoMatch
     ELSE LET p == CHOOSE x \in starts : \A y \in starts : x <= y
              breaks == {e \in (p + 1)..Len(body) : body[e].kind = "newline"}
              lineEnd == IF breaks = {} THEN Len(body) + 1
                         ELSE CHOOSE e \in breaks : \A y \in breaks : e <= y
              onLine == {q \in p..(lineEnd - 1) : body[q].kind = "watch"}
              last == IF regex = "watch"
                      THEN CHOOSE q \in onLine : \A y \in onLine : y <= q
                      ELSE p
          IN [matched |-> TRUE, videoId |-> body[last].id, lastIndex |-> last]

RECURSIVE execLoop(_, _, _)
\* while ((match = regex.exec(message.body)) !== null) links.push(...)
execLoop(regex, message, lastIndex) ==
  LET match == exec(regex, message.body, lastIndex)
  IN IF ~match.matched THEN <<>>
     ELSE <<[videoId |-> match.videoId, datetime |-> message.datetime,
             userId |-> message.userId]>>
          \o execLoop(regex, message, match.lastIndex)

\* regex.lastIndex = 0
resetLastIndexKeepsCursor(lastIndex) == lastIndex

resetLastIndex(lastIndex) == 0

\* regexes.flatMap(regex => { regex.lastIndex = 0; ...loop... })
linksOfMessage(message, lastIndex) ==
  execLoop(youTubeRegexes[1], message, resetLastIndex(lastIndex[1]))
    \o execLoop(youTubeRegexes[2], message, resetLastIndex(lastIndex[2]))

\* every loop ends with an exec that returns null and leaves lastIndex at 0
lastIndexAfter(messages, lastIndex) ==
  IF messages = <<>> THEN lastIndex ELSE <<0, 0>>

RECURSIVE flatMapMessages(_, _)
flatMapMessages(messages, lastIndex) ==
  IF messages = <<>> THEN <<>>
  ELSE linksOfMessage(Head(messages), lastIndex)
         \o flatMapMessages(Tail(messages),
                            lastIndexAfter(<<Head(messages)>>, lastIndex))

\* utils extractYouTubeLinksFromMessages, with the shared regexes' lastIndex
\* as it was left by earlier uses
extractYouTubeLinksFromMessagesOncePerVideo(messages, lastIndex) ==
  LET all == flatMapMessages(messages, lastIndex)
  IN SelectSeq([i \in 1..Len(all) |->
                  IF \E j \in 1..(i - 1) : all[j].videoId = all[i].videoId
                  THEN [videoId |-> "", datetime |-> 0, userId |-> ""]
                  ELSE all[i]],
               LAMBDA link : link.videoId # "")

extractYouTubeLinksFromMessages(messages, lastIndex) ==
  flatMapMessages(messages, lastIndex)

\* lastIndex values an earlier regex.test or exec can have left
StaleLastIndexes == {<<0, 0>>, <<1, 0>>, <<0, 1>>, <<1, 1>>}

InitAgg ==
  /\ aggPc = "input"
  /\ aggMessages \in SeqsUpTo(Messages, MaxMessages)
  /\ aggSplit \in 0..Len(aggMessages)
  /\ aggLastIndex \in StaleLastIndexes
  /\ aggWhole = <<>>
  /\ aggFirst = <<>>
  /\ aggSecond = <<>>

AggOff ==
  /\ aggPc = "off"
  /\ aggMessages = <<>>
  /\ aggSplit = 0
  /\ aggLastIndex = <<0, 0>>
  /\ aggWhole = <<>>
  /\ aggFirst = <<>>
  /\ aggSecond = <<>>

\* the batches before and after the split
FirstBatch == SubSeq(aggMessages, 1, aggSplit)
SecondBatch == SubSeq(aggMessages, aggSplit + 1, Len(aggMessages))

\* one call over the whole input
AggregateWhole ==
  /\ aggPc = "input"
  /\ aggWhole' = extractYouTubeLinksFromMessages(aggMessages, aggLastIndex)
  /\ aggLastIndex' = lastIndexAfter(aggMessages, aggLastIndex)
  /\ aggPc' = "whole"
  /\ UNCHANGED <<aggMessages, aggSplit, aggFirst, aggSecond>>

\* one call per batch, in batch order
AggregateFirstBatch ==
  /\ aggPc = "whole"
  /\ aggFirst' = extractYouTubeLinksFromMessages(FirstBatch, aggLastIndex)
  /\ aggLastIndex' = lastIndexAfter(FirstBatch, aggLastIndex)
  /\ aggPc' = "first"
  /\ UNCHANGED <<aggMessages, aggSplit, aggWhole, aggSecond>>

AggregateSecondBatch ==
  /\ aggPc = "first"
  /\ aggSecond' = extractYouTubeLinksFromMessages(SecondBatch, aggLastIndex)
  /\ aggLastIndex' = lastIndexAfter(SecondBatch, aggLastIndex)
  /\ aggPc' = "done"
  /\ UNCHANGED <<aggMessages, aggSplit, aggWhole, aggFirst>>

\* ------------------------------------------------- the shared patterns

\* how many calls are made on the shared patterns
MaxCalls == 2

\* regex.test(messageBody) of a global regex: exec(...) !== null
test(regex, messageBody, lastIndex) == exec(regex, messageBody, lastIndex).matched

\* hasYouTubeLinks: regexes.some(regex => { regex.lastIndex = 0;
\*                                          return regex.test(messageBody) })
hasYouTubeLinks(messageBody, lastIndex) ==
  \/ test(youTubeRegexes[1], messageBody, resetLastIndex(lastIndex[1]))
  \/ test(youTubeRegexes[2], messageBody, resetLastIndex(lastIndex[2]))

\* the lastIndex values hasYouTubeLinks leaves: some() stops at the first
\* pattern that matches, whose lastIndex stays behind the match; a pattern
\* that was tested without a match is back at 0
lastIndexAfterTest(messageBody, lastIndex) ==
  LET first == exec(youTubeRegexes[1], messageBody, resetLastIndex(lastIndex[1]))
      second == exec(youTubeRegexes[2], messageBody, resetLastIndex(lastIndex[2]))
  IN IF first.matched THEN <<first.lastIndex, lastIndex[2]>>
     ELSE <<first.lastIndex, second.lastIndex>>

\* extractVideoIdsFromMessage: the ids of every match, pattern by pattern
extractVideoIdsFromMessage(messageBody, lastIndex) ==
  LET links == linksOfMessage([body |-> messageBody, datetime |-> 0,
                               userId |-> NullUserId], lastIndex)
  IN [i \in 1..Len(links) |-> links[i].videoId]

\* the cursor each scan of a call starts with: both patterns are scanned,
\* except that hasYouTubeLinks skips the second when the first matched
scanCursors(fn, messageBody, lastIndex) ==
  IF fn = "hasYouTubeLinks"
     /\ test(youTubeRegexes[1], messageBody, resetLastIndex(lastIndex[1]))
  THEN <<resetLastIndex(lastIndex[1])>>
  ELSE <<resetLastIndex(lastIndex[1]), resetLastIndex(lastIndex[2])>>

\* what a call of one of the three functions on one message returns
CallRecord(fn, message, lastIndex) ==
  [fn |-> fn, message |-> message, before |-> lastIndex,
   cursors |-> scanCursors(fn, message.body, lastIndex),
   links |-> IF fn = "extractYouTubeLinksFromMessages"
             THEN extractYouTubeLinksFromMessages(<<message>>, lastIndex)
             ELSE <<>>,
   found |-> IF fn = "hasYouTubeLinks"
             THEN hasYouTubeLinks(message.body, lastIndex)
             ELSE FALSE,
   videoIds |-> IF fn = "extractVideoIdsFromMessage"
                THEN extractVideoIdsFromMessage(message.body, lastIndex)
                ELSE <<>>]

\* the module was just loaded: the patterns are fresh
InitExt ==
  /\ extLastIndex = <<0, 0>>
  /\ extCalls = <<>>

ExtOff ==
  /\ extLastIndex = <<0, 0>>
  /\ extCalls = <<>>

CallExtractLinks ==
  /\ Len(extCalls) < MaxCalls
  /\ \E message \in Messages :
       /\ extCalls' = Append(extCalls,
            CallRecord("extractYouTubeLinksFromMessages", message, extLastIndex))
       /\ extLastIndex' = lastIndexAfter(<<message>>, extLastIndex)

CallHasYouTubeLinks ==
  /\ Len(extCalls) < MaxCalls
  /\ \E message \in Messages :
       /\ extCalls' = Append(extCalls,
            CallRecord("hasYouTubeLinks", message, extLastIndex))
       /\ extLastIndex' = lastIndexAfterTest(message.body, extLastIndex)

CallExtractVideoIds ==
  /\ Len(extCalls) < MaxCalls
  /\ \E message \in Messages :
       /\ extCalls' = Append(extCalls,
            CallRecord("extractVideoIdsFromMessage", message, extLastIndex))
       /\ extLastIndex' = lastIndexAfter(<<message>>, extLastIndex)

\* ------------------------------------------------- WhatsApp lines

\* A line of the export is blank, or does not match WHATSAPP_MESSAGE_REGEX
\* (a continuation line), or matches it: date and time (here the timestamp
\* they denote), the author field [^:]+ and the content (.*), both token
\* sequences.  A system-notice phrase is one token.
Space == " "
Phrase(text) == [kind |-> "phrase", id |-> text]

SYSTEM_MESSAGE_PATTERNS ==
  {"Messages and calls are end-to-end encrypted", "You created group",
   "added", "left", "changed the group description", "changed the subject",
   "This message was deleted"}

Authors ==
  { <<"Alice">>,
    <<"+", "43", Space, "677">>,
    <<Space>>,
    <<Space, "Bob", Space>>,
    <<"Alice", Space, "changed the subject">> }

Contents ==
  { <<TextToken>>,
    <<ShortLink("a")>>,
    <<WatchLink("b")>>,
    <<Phrase("added"), ShortLink("a")>>,
    <<TextToken, Phrase("left")>>,
    <<Phrase("This message was deleted")>> }

BlankLine == [kind |-> "blank", datetime |-> 0, userStr |-> <<>>,
              messageContent |-> <<>>]

Lines ==
  {BlankLine}
    \cup [kind : {"continuation"}, datetime : {0}, userStr : {<<>>},
          messageContent : {<<ShortLink("a")>>}]
    \cup [kind : {"message"}, datetime : {100}, userStr : Authors,
          messageContent : Contents]

\* isSystemMessage: SYSTEM_MESSAGE_PATTERNS.some(pattern => pattern.test(message))
isSystemMessage(message) ==
  \E pattern \in SYSTEM_MESSAGE_PATTERNS :
    \E i \in 1..Len(message) :
      message[i] = Phrase(pattern)

RECURSIVE trimStart(_)
trimStart(s) ==
  IF s # <<>> /\ Head(s) = Space THEN trimStart(Tail(s)) ELSE s

RECURSIVE trimEnd(_)
trimEnd(s) ==
  IF s # <<>> /\ s[Len(s)] = Space THEN trimEnd(SubSeq(s, 1, Len(s) - 1))
  ELSE s

\* String.prototype.trim
trim(s) == trimEnd(trimStart(s))

\* normalizeUserId: a phone number loses its spaces, a name is trimmed, an
\* empty name is null
normalizeUserId(userId) ==
  LET trimmedUserId == trim(userId)
  IN IF trimmedUserId # <<>> /\ Head(trimmedUserId) = "+"
     THEN SelectSeq(trimmedUserId, LAMBDA c : c # Space)
     ELSE IF trimmedUserId = <<>> THEN <<NullUserId>> ELSE trimmedUserId

NullMessage == [isNull |-> TRUE, datetime |-> 0, userId |-> <<NullUserId>>,
                message |-> <<>>]

\* parseWhatsAppLine; the throw of line 102 needs an empty capture group,
\* which the pattern cannot produce for date, time and author
parseWhatsAppLine(line, lineNumber, skipSystemMessages) ==
  IF line.kind = "blank" THEN NullMessage
  ELSE IF line.kind # "message" THEN NullMessage
  ELSE IF skipSystemMessages /\ isSystemMessage(line.messageContent)
  THEN NullMessage
  ELSE [isNull |-> FALSE, datetime |-> line.datetime,
        userId |-> normalizeUserId(line.userStr),
        message |-> line.messageContent]

\* whatsAppMessageToMessageData
whatsAppMessageToMessageData(message) ==
  [body |-> message.message, datetime |-> message.datetime,
   userId |-> message.userId]

InitParse ==
  /\ parsePc = "input"
  /\ parseLine \in Lines
  /\ parseSkip \in BOOLEAN
  /\ parseOut = NullMessage
  /\ parseLinks = <<>>

ParseOff ==
  /\ parsePc = "off"
  /\ parseLine = BlankLine
  /\ parseSkip = TRUE
  /\ parseOut = NullMessage
  /\ parseLinks = <<>>

\* parseWhatsAppLine(line, lineNumber, parseOptions)
ParseLine ==
  /\ parsePc = "input"
  /\ parseOut' = parseWhatsAppLine(parseLine, 1, parseSkip)
  /\ parsePc' = "parsed"
  /\ UNCHANGED <<parseLine, parseSkip, parseLinks>>

\* the links of the parsed message, as extractYouTubeLinksStream takes them
ExtractParsed ==
  /\ parsePc = "parsed"
  /\ ~parseOut.isNull
  /\ parseLinks' = extractYouTubeLinksFromMessages(
                     <<whatsAppMessageToMessageData(parseOut)>>, <<0, 0>>)
  /\ parsePc' = "extracted"
  /\ UNCHANGED <<parseLine, parseSkip, parseOut>>

\* ------------------------------------------------- reading the export file

\* how many lines a file has, and the largest batchSize
MaxLines == 3
MaxBatchSize == 2

\* the lines a file is made of
FileLines ==
  { [kind |-> "continuation", datetime |-> 0, userStr |-> <<>>,
     messageContent |-> <<ShortLink("a")>>],
    [kind |-> "message", datetime |-> 100, userStr |-> <<"Alice">>,
     messageContent |-> <<TextToken>>],
    [kind |-> "message", datetime |-> 100, userStr |-> <<"Alice">>,
     messageContent |-> <<ShortLink("a")>>],
    [kind |-> "message", datetime |-> 100, userStr |-> <<"+", "43", Space, "677">>,
     messageContent |-> <<WatchLink("b")>>],
    [kind |-> "message", datetime |-> 100, userStr |-> <<"Alice">>,
     messageContent |-> <<Phrase("added"), ShortLink("a")>>] }

\* parseOptions.skipSystemMessages and config.onlyYouTubeMessages
ExtractorOptions == [skipSystemMessages : BOOLEAN, onlyYouTubeMessages : BOOLEAN]

\* Every use of the shared patterns resets lastIndex first; the functions
\* below are given the patterns as the previous use left them.
UsedPatterns == <<0, 0>>

\* whatsapp/extractor.ts processBatch: the messages of the lines that parse
\* (and hold a link, if only those are wanted) and their links; its errors
\* array stays empty because parseWhatsAppLine does not throw
processBatch(lines, parseOptions, onlyYouTubeMessages) ==
  LET parsed == [i \in 1..Len(lines) |->
                   parseWhatsAppLine(lines[i], i, parseOptions)]
      messages == SelectSeq(parsed, LAMBDA message :
                    /\ ~message.isNull
                    /\ (~onlyYouTubeMessages
                        \/ hasYouTubeLinks(message.message, UsedPatterns)))
      messageData == [i \in 1..Len(messages) |->
                        whatsAppMessageToMessageData(messages[i])]
  IN [messages |-> messages,
      youTubeLinks |-> extractYouTubeLinksFromMessages(messageData, UsedPatterns)]

NoCounts == [totalMessages |-> 0, youTubeMessages |-> 0, youTubeLinks |-> <<>>]

\* the batch processor extractYouTubeLinksBatch hands to procesFileInBatches:
\* it adds one batch to the three accumulators
batchProcessor(counts, batch, options) ==
  LET out == processBatch(batch, options.skipSystemMessages,
                          options.onlyYouTubeMessages)
      withLinks == SelectSeq(out.messages, LAMBDA msg :
                     hasYouTubeLinks(msg.message, UsedPatterns))
  IN [totalMessages |-> counts.totalMessages + Len(out.messages),
      youTubeMessages |-> counts.youTubeMessages + Len(withLinks),
      youTubeLinks |-> counts.youTubeLinks \o out.youTubeLinks]

\* the line processor extractYouTubeLinksStream hands to processFileByLines
streamProcessor(counts, line, lineNumber, options) ==
  LET message == parseWhatsAppLine(line, lineNumber, options.skipSystemMessages)
      hasYouTube == hasYouTubeLinks(message.message, UsedPatterns)
  IN IF message.isNull THEN counts
     ELSE IF options.onlyYouTubeMessages /\ ~hasYouTube THEN counts
     ELSE [totalMessages |-> counts.totalMessages + 1,
           youTubeMessages |-> counts.youTubeMessages
                                 + (IF hasYouTube THEN 1 ELSE 0),
           youTubeLinks |->
             counts.youTubeLinks
               \o (IF hasYouTube
                   THEN extractYouTubeLinksFromMessages(
                          <<whatsAppMessageToMessageData(message)>>, UsedPatterns)
                   ELSE <<>>)]

RECURSIVE processFileByLines(_, _, _, _)
\* processFileByLines with the default options: the 'line' listener runs the
\* processor on every line, in file order, before 'close' resolves
processFileByLines(lines, currentLine, counts, options) ==
  IF currentLine > Len(lines) THEN counts
  ELSE processFileByLines(lines, currentLine + 1,
         streamProcessor(counts, lines[currentLine], currentLine, options),
         options)

\* extractYouTubeLinksStream
extractYouTubeLinksStream(lines, options) ==
  processFileByLines(lines, 1, NoCounts, options)

\* the lines behind the line numbers of a batch
LinesAt(batch) == [i \in 1..Len(batch) |-> rdLines[batch[i]]]

InitReader ==
  /\ rdLines \in SeqsUpTo(FileLines, MaxLines)
  /\ rdBatchSize \in 1..MaxBatchSize
  /\ rdOptions \in ExtractorOptions
  /\ rdEmitted = 0
  /\ rlPaused = FALSE
  /\ rlClosed = FALSE
  /\ currentBatch = <<>>
  /\ batchNumber = 0
  /\ rdAwaiting = <<>>
  /\ rdBatches = <<>>
  /\ rdResolved = FALSE
  /\ totalMessages = 0
  /\ youTubeMessages = 0
  /\ allYouTubeLinks = <<>>

ReaderOff ==
  /\ rdLines = <<>>
  /\ rdBatchSize = 1
  /\ rdOptions = [skipSystemMessages |-> TRUE, onlyYouTubeMessages |-> FALSE]
  /\ rdEmitted = 0
  /\ rlPaused = FALSE
  /\ rlClosed = TRUE
  /\ currentBatch = <<>>
  /\ batchNumber = 0
  /\ rdAwaiting = <<>>
  /\ rdBatches = <<>>
  /\ rdResolved = TRUE
  /\ totalMessages = 0
  /\ youTubeMessages = 0
  /\ allYouTubeLinks = <<>>

\* processBatch of procesFileInBatches up to its await: with a non-empty
\* currentBatch the batch processor is called, and it has run when it returns
\* its promise; `by` is the listener that awaits the call
CallProcessBatch(batch, by) ==
  IF batch = <<>>
  THEN /\ rdAwaiting' = Append(rdAwaiting, [by |-> by, called |-> FALSE])
       /\ UNCHANGED <<rdBatches, totalMessages, youTubeMessages, allYouTubeLinks>>
  ELSE LET counts == batchProcessor(
                       [totalMessages |-> totalMessages,
                        youTubeMessages |-> youTubeMessages,
                        youTubeLinks |-> allYouTubeLinks],
                       LinesAt(batch), rdOptions)
       IN /\ rdAwaiting' = Append(rdAwaiting, [by |-> by, called |-> TRUE])
          /\ rdBatches' = Append(rdBatches,
                                 [batch |-> batch, batchNumber |-> batchNumber])
          /\ totalMessages' = counts.totalMessages
          /\ youTubeMessages' = counts.youTubeMessages
          /\ allYouTubeLinks' = counts.youTubeLinks

\* rl.on("line"): readline emits the lines it has already read also after
\* rl.pause(), so the listener runs whether or not an earlier batch is awaited
OnLine ==
  /\ ~rlClosed
  /\ rdEmitted < Len(rdLines)
  /\ rdEmitted' = rdEmitted + 1
  /\ currentBatch' = Append(currentBatch, rdEmitted + 1)
  /\ IF Len(currentBatch') >= rdBatchSize
     THEN /\ rlPaused' = TRUE
          /\ CallProcessBatch(currentBatch', "line")
     ELSE UNCHANGED <<rlPaused, rdAwaiting, rdBatches, totalMessages,
                      youTubeMessages, allYouTubeLinks>>
  /\ UNCHANGED <<rdLines, rdBatchSize, rdOptions, rlClosed, batchNumber,
                 rdResolved>>

\* rl.on("close"), after the last line
OnClose ==
  /\ ~rlClosed
  /\ rdEmitted = Len(rdLines)
  /\ rlClosed' = TRUE
  /\ CallProcessBatch(currentBatch, "close")
  /\ UNCHANGED <<rdLines, rdBatchSize, rdOptions, rdEmitted, rlPaused,
                 currentBatch, batchNumber, rdResolved>>

\* the oldest awaited processBatch continues behind its await (the promises
\* of the batch processor are already resolved, so they continue in the order
\* of the calls), and then the listener that awaited it
BatchSettles ==
  /\ rdAwaiting # <<>>
  /\ LET awaited == Head(rdAwaiting)
     IN /\ rdAwaiting' = Tail(rdAwaiting)
        /\ IF awaited.called
           THEN /\ currentBatch' = <<>>
                /\ batchNumber' = batchNumber + 1
           ELSE UNCHANGED <<currentBatch, batchNumber>>
        /\ IF awaited.by = "line"
           THEN /\ rlPaused' = FALSE
                /\ UNCHANGED rdResolved
           ELSE /\ rdResolved' = TRUE
                /\ UNCHANGED rlPaused
  /\ UNCHANGED <<rdLines, rdBatchSize, rdOptions, rdEmitted, rlClosed,
                 rdBatches, totalMessages, youTubeMessages, allYouTubeLinks>>

\* ------------------------------------------------- statistics of any results

\* no statistics printed
NoStats ==
  [total |-> -1, previouslyInPlaylist |-> -1, blacklistedVideos |-> -1,
   newVideosAdded |-> -1, skipped |-> -1, errors |-> -1, finalPlaylistSize |-> -1]

\* how many results a list has
MaxResults == 2

\* a title and an error message the remote may answer with
BlacklistedTitle == <<"My", "blacklisted", "songs">>
BlacklistedError ==
  [code |-> 500, hasMessage |-> TRUE, message |-> <<"channel", "blacklisted">>]

\* what processVideoAddition can return for a candidate
AddResults ==
  {handleBlacklistedVideo("a"), handleVideoNotFound("a")}
    \cup {catchAdditionError("a", error).value :
            error \in RemoteErrors \cup {BlacklistedError}}
    \cup {handleSuccessfulAdd("a", titleOrVideoId([found |-> TRUE, title |-> t], "a")) :
            t \in Titles \cup {BlacklistedTitle}}

InitStat ==
  /\ statPc = "input"
  /\ statResults \in SeqsUpTo(AddResults, MaxResults)
  /\ statOut = NoStats

StatOff ==
  /\ statPc = "off"
  /\ statResults = <<>>
  /\ statOut = NoStats

\* calculateStats(videoIds, existingVideos, blacklistedVideoIds, results)
ApplyCalculateStats ==
  /\ statPc = "input"
  /\ statOut' = calculateStats([i \in 1..Len(statResults) |-> statResults[i].videoId],
                               {}, {}, statResults)
  /\ statPc' = "output"
  /\ UNCHANGED statResults

\* ------------------------------------------------- listing the playlist

\* how many pages the remote playlist has
MaxPages == 2

\* a playlist item: contentDetails.videoId, "" when it is absent
NoVideoId == ""
PageItems ==
  { <<>>,
    <<[videoId |-> "a"]>>,
    <<[videoId |-> "b"], [videoId |-> "a"]>>,
    <<[videoId |-> NoVideoId]>> }

\* nextPageToken: the number of the page it designates; NoToken when the
\* response has none
NoToken == 0

\* the remote's pages: what playlistItems.list answers for each page token
RemotePages ==
  UNION {[1..n -> [items : PageItems, nextPageToken : {NoToken} \cup 1..n]] :
           n \in 1..MaxPages}

\* fetchPlaylistPage: without a pageToken the remote answers its first page
fetchPlaylistPage(remote, pageToken) ==
  LET response == IF pageToken = NoToken THEN remote[1] ELSE remote[pageToken]
  IN [items |-> response.items, nextPageToken |-> response.nextPageToken]

\* const allItems = [...accumulated, ...items]
allItemsLastPageOnly(acc, items) == items

allItems(acc, items) == acc \o items

\* getPlaylistVideoIds: map to contentDetails?.videoId, filter(!!id), new Set
getPlaylistVideoIdsOfItems(videos) ==
  {videos[i].videoId : i \in {j \in 1..Len(videos) : videos[j].videoId # NoVideoId}}

InitPage ==
  /\ pgPc = "fetch"
  /\ pgRemote \in RemotePages
  /\ pgPageToken = NoToken
  /\ pgRequests = <<>>
  /\ accumulated = <<>>
  /\ pgVideoIds = {}

PageOff ==
  /\ pgPc = "off"
  /\ pgRemote = <<>>
  /\ pgPageToken = NoToken
  /\ pgRequests = <<>>
  /\ accumulated = <<>>
  /\ pgVideoIds = {}

\* one call of fetchAllPages: a page is requested and answered; with a
\* nextPageToken fetchAllPages calls itself, without one it returns allItems
FetchPage ==
  /\ pgPc = "fetch"
  /\ Len(pgRequests) < MaxPages + 1
  /\ LET page == fetchPlaylistPage(pgRemote, pgPageToken)
     IN /\ pgRequests' = Append(pgRequests, pgPageToken)
        /\ accumulated' = allItems(accumulated, page.items)
        /\ IF page.nextPageToken # NoToken
           THEN /\ pgPageToken' = page.nextPageToken
                /\ pgPc' = "fetch"
           ELSE /\ pgPageToken' = pgPageToken
                /\ pgPc' = "listed"
  /\ UNCHANGED <<pgRemote, pgVideoIds>>

\* playlistItems.list rejects: the error leaves fetchAllPages and
\* getPlaylistVideoIds
FetchFails ==
  /\ pgPc = "fetch"
  /\ Len(pgRequests) < MaxPages + 1
  /\ pgRequests' = Append(pgRequests, pgPageToken)
  /\ pgPc' = "failed"
  /\ UNCHANGED <<pgRemote, pgPageToken, accumulated, pgVideoIds>>

\* getPlaylistVideoIds behind its await
ReturnVideoIds ==
  /\ pgPc = "listed"
  /\ pgVideoIds' = getPlaylistVideoIdsOfItems(accumulated)
  /\ pgPc' = "done"
  /\ UNCHANGED <<pgRemote, pgPageToken, pgRequests, accumulated>>

\* every library function idle
UtilOff ==
  /\ ExtOff
  /\ ParseOff
  /\ ReaderOff
  /\ StatOff
  /\ PageOff

\* ------------------------------------------------- the run: initial states

\* process.env: is YOUTUBE_PLAYLIST_ID set, is SIGNAL_GROUP_NAME set
Envs == [playlistId : BOOLEAN, groupName : BOOLEAN]

\* update-whatsapp.ts never reads SIGNAL_GROUP_NAME
RequiredEnvs(p) == {e \in Envs : p = "whatsapp" => e.groupName}

EnvComplete == [playlistId |-> TRUE, groupName |-> TRUE]

RecOff ==
  /\ recPc = "off"
  /\ recVariant = "basic"
  /\ recLocal = <<>>
  /\ recRemote = {}
  /\ recExcluded = {}
  /\ recOut = <<>>

LibOff ==
  /\ RecOff
  /\ DedupOff
  /\ AggOff
  /\ UtilOff

CommitterIdle ==
  /\ index = 0
  /\ results = <<>>
  /\ result = NoResult
  /\ videoInfo = NullVideo
  /\ pending = {}
  /\ trace = <<>>
  /\ exitCode = -1

\* nothing of the run has happened yet
RunIdle ==
  /\ existingVideoIds = {}
  /\ localVideoIds = <<>>
  /\ newVideoIds = <<>>
  /\ stageLog = <<>>
  /\ printedStats = NoStats
  /\ CommitterIdle

\* a run of one of the three scripts
Init ==
  /\ pipeline \in Pipelines
  /\ pc = "validate"
  /\ env \in RequiredEnvs(pipeline)
  /\ playlist \in SUBSET VideoIds
  /\ extractedVideoIds \in SeqsUpTo(VideoIds, MaxLocal)
  /\ blacklistFile \in BlacklistFiles
  /\ blacklistedVideoIds = {}
  /\ run = "first"
  /\ insertedEarlier = {}
  /\ RunIdle
  /\ LibOff

\* addVideosSequentially called on its own with any list and blacklist
InitCommitter ==
  /\ pipeline \in Pipelines
  /\ pc = "addNext"
  /\ env = EnvComplete
  /\ playlist = {}
  /\ extractedVideoIds = <<>>
  /\ blacklistFile = [readable |-> FALSE, videoIds |-> {}]
  /\ existingVideoIds = {}
  /\ localVideoIds = <<>>
  /\ blacklistedVideoIds \in IF pipeline = "signal" THEN {{}} ELSE SUBSET VideoIds
  /\ newVideoIds \in SeqsUpTo(VideoIds, MaxLocal)
  /\ stageLog = <<>>
  /\ printedStats = NoStats
  /\ run = "first"
  /\ insertedEarlier = {}
  /\ CommitterIdle
  /\ LibOff

\* no script runs
RunOff ==
  /\ pipeline = "signal"
  /\ pc = "off"
  /\ env = EnvComplete
  /\ playlist = {}
  /\ extractedVideoIds = <<>>
  /\ blacklistFile = [readable |-> FALSE, videoIds |-> {}]
  /\ blacklistedVideoIds = {}
  /\ run = "first"
  /\ insertedEarlier = {}
  /\ RunIdle

\* findNewVideos called on its own
InitReconciler ==
  /\ InitRecon
  /\ RunOff
  /\ DedupOff
  /\ AggOff
  /\ UtilOff

\* a deduplication called on its own
InitDeduplicator ==
  /\ InitDedup
  /\ RunOff
  /\ RecOff
  /\ AggOff
  /\ UtilOff

\* extractYouTubeLinksFromMessages called on its own
InitAggregator ==
  /\ InitAgg
  /\ RunOff
  /\ RecOff
  /\ DedupOff
  /\ UtilOff

\* the three extractor functions called on their own
InitExtractor ==
  /\ InitExt
  /\ RunOff /\ RecOff /\ DedupOff /\ AggOff
  /\ ParseOff /\ ReaderOff /\ StatOff /\ PageOff

\* parseWhatsAppLine called on its own
InitParser ==
  /\ InitParse
  /\ RunOff /\ RecOff /\ DedupOff /\ AggOff
  /\ ExtOff /\ ReaderOff /\ StatOff /\ PageOff

\* extractYouTubeLinksBatch called on its own
InitBatchReader ==
  /\ InitReader
  /\ RunOff /\ RecOff /\ DedupOff /\ AggOff
  /\ ExtOff /\ ParseOff /\ StatOff /\ PageOff

\* calculateStats called on its own
InitStats ==
  /\ InitStat
  /\ RunOff /\ RecOff /\ DedupOff /\ AggOff
  /\ ExtOff /\ ParseOff /\ ReaderOff /\ PageOff

\* getPlaylistVideoIds called on its own
InitPaging ==
  /\ InitPage
  /\ RunOff /\ RecOff /\ DedupOff /\ AggOff
  /\ ExtOff /\ ParseOff /\ ReaderOff /\ StatOff

\* ------------------------------------------------- the run: stages

committerVars == <<index, results, result, videoInfo, pending, trace>>
inputVars == <<pipeline, env, extractedVideoIds, blacklistFile>>
retryVars == <<run, insertedEarlier>>

\* what the stages before the Committer leave alone
stageFrame == <<inputVars, retryVars, playlist, committerVars, libVars>>

\* the catch of updatePlaylist / updateWhatsApp: handleError prints and calls
\* process.exit(1)
handleError ==
  /\ pc' = "done"
  /\ exitCode' = 1

\* validateEnvVars: throws when YOUTUBE_PLAYLIST_ID is not set
ValidateEnvVars ==
  /\ pc = "validate"
  /\ IF env.playlistId
     THEN pc' = FirstStage(pipeline) /\ UNCHANGED exitCode
     ELSE handleError
  /\ UNCHANGED <<stageFrame, existingVideoIds, localVideoIds,
                 blacklistedVideoIds, newVideoIds, stageLog, printedStats>>

\* initializeYouTubeClient: reads credentials.json and token.json; throws when
\* one of them cannot be read
InitializeYouTubeClient ==
  /\ pc = "client"
  /\ \E authenticated \in BOOLEAN :
       IF authenticated
       THEN pc' = "loadExisting" /\ UNCHANGED exitCode
       ELSE handleError
  /\ stageLog' = Append(stageLog, "readCredentials")
  /\ UNCHANGED <<stageFrame, existingVideoIds, localVideoIds,
                 blacklistedVideoIds, newVideoIds, printedStats>>

\* loadExistingVideos: one getPlaylistVideoIds call, which may reject
LoadExistingVideos ==
  /\ pc = "loadExisting"
  /\ \E listed \in BOOLEAN :
       IF listed
       THEN /\ existingVideoIds' = getPlaylistVideoIds(playlist)
            /\ stageLog' = stageLog \o <<"listPlaylist", "playlistListed">>
            /\ pc' = AfterLoadExisting(pipeline)
            /\ UNCHANGED exitCode
       ELSE /\ stageLog' = Append(stageLog, "listPlaylist")
            /\ handleError
            /\ UNCHANGED existingVideoIds
  /\ UNCHANGED <<stageFrame, localVideoIds, blacklistedVideoIds, newVideoIds, printedStats>>

\* initializeDatabase (update.ts, update-with-metadata): throws when
\* SIGNAL_GROUP_NAME is not set, or when config.json or the database file
\* cannot be opened; otherwise the database is open
InitializeDatabase ==
  /\ pc = "loadLocal"
  /\ pipeline # "whatsapp"
  /\ IF ~env.groupName
     THEN handleError /\ UNCHANGED stageLog
     ELSE \E opened \in BOOLEAN :
            IF opened
            THEN /\ stageLog' = Append(stageLog, "dbOpen")
                 /\ pc' = "extract"
                 /\ UNCHANGED exitCode
            ELSE handleError /\ UNCHANGED stageLog
  /\ UNCHANGED <<stageFrame, existingVideoIds, localVideoIds,
                 blacklistedVideoIds, newVideoIds, printedStats>>

\* finally { closeDatabase(connection) }: whether or not the try block threw
closeDatabaseUnlessThrown(log, threw) ==
  IF threw THEN log ELSE Append(log, "dbClose")

finallyCloseDatabase(log, threw) == Append(log, "dbClose")

\* loadSignalVideos / loadSignalMetadata: try { extract } finally
\* { closeDatabase }; the extraction throws when the conversation is not found
\* or a query fails; update-with-metadata then writes the metadata file
LoadSignalVideos ==
  /\ pc = "extract"
  /\ \E outcome \in {"extracted", "extractionFailed", "saveFailed"} :
       /\ outcome = "saveFailed" => pipeline = "signalMeta"
       /\ stageLog' = finallyCloseDatabase(Append(stageLog, "readChat"),
                                           outcome = "extractionFailed")
       /\ IF outcome = "extracted"
          THEN /\ localVideoIds' = getUniqueVideoIds(extractedVideoIds)
               /\ pc' = AfterLoadLocal(pipeline)
               /\ UNCHANGED exitCode
          ELSE handleError /\ UNCHANGED localVideoIds
  /\ UNCHANGED <<stageFrame, existingVideoIds, blacklistedVideoIds,
                 newVideoIds, printedStats>>

\* updateWhatsApp up to the playlist upload: the extraction from the export
\* file (which throws when the file cannot be read), the deduplication and
\* [...new Set(...)], with the early return when nothing was extracted
LoadLocalVideos ==
  /\ pc = "loadLocal"
  /\ pipeline = "whatsapp"
  /\ stageLog' = Append(stageLog, "readChat")
  /\ \E readable \in BOOLEAN :
       IF ~readable
       THEN handleError /\ UNCHANGED localVideoIds
       ELSE /\ localVideoIds' = getUniqueVideoIds(extractedVideoIds)
            /\ IF extractedVideoIds = <<>>
               THEN pc' = "done" /\ exitCode' = 0
               ELSE pc' = AfterLoadLocal(pipeline) /\ UNCHANGED exitCode
  /\ UNCHANGED <<stageFrame, existingVideoIds, blacklistedVideoIds,
                 newVideoIds, printedStats>>

\* loadBlacklist
LoadBlacklist ==
  /\ pc = "loadBlacklist"
  /\ blacklistedVideoIds' = loadVideoBlacklist(blacklistFile)
  /\ stageLog' = Append(stageLog, "readBlacklist")
  /\ pc' = "checkNew"
  /\ UNCHANGED <<stageFrame, existingVideoIds, localVideoIds, newVideoIds,
                 exitCode, printedStats>>

\* checkNewVideos returns null when nothing is new
nothingNewNever(new) == FALSE

nothingNew(new) == Len(new) = 0

\* checkNewVideos, and the script's report and return when nothing is new
CheckNewVideos ==
  /\ pc = "checkNew"
  /\ LET new == IF pipeline = "signal"
                THEN findNewVideosBasic(localVideoIds, existingVideoIds)
                ELSE findNewVideos(localVideoIds, existingVideoIds,
                                   blacklistedVideoIds)
     IN /\ newVideoIds' = new
        /\ IF nothingNew(new)
           THEN /\ printedStats' = RunStats(pipeline, localVideoIds, existingVideoIds,
                                     blacklistedVideoIds, <<>>)
                /\ pc' = "done"
                /\ exitCode' = 0
           ELSE /\ pc' = "addNext"
                /\ UNCHANGED <<exitCode, printedStats>>
  /\ stageLog' = Append(stageLog, "reconcile")
  /\ UNCHANGED <<stageFrame, existingVideoIds, localVideoIds, blacklistedVideoIds>>


\* ------------------------------------------------- the Committer

\* a successful addition leaves the snapshot of the playlist as it was loaded
snapshotAfterAddIncremental(existing, videoId) == existing \cup {videoId}

snapshotAfterAdd(existing, videoId) == existing

frameVars == <<inputVars, retryVars, localVideoIds, blacklistedVideoIds,
               newVideoIds, stageLog, printedStats, libVars>>

\* addNext(index): return the results after the last candidate; otherwise
\* addVideoWithRateLimit -> processVideoAddition up to its first await
AddNext ==
  /\ pc = "addNext"
  /\ IF index >= Len(newVideoIds)
     THEN /\ pc' = "returned"
          /\ UNCHANGED <<result, pending, trace>>
     ELSE LET videoId == newVideoIds[index + 1]
          IN IF isBlacklisted(pipeline, videoId, blacklistedVideoIds)
             THEN /\ result' = handleBlacklistedVideo(videoId)
                  /\ pc' = "rateLimit"
                  /\ UNCHANGED <<pending, trace>>
             ELSE /\ pending' = pending \cup {Request("lookup", videoId, index)}
                  /\ trace' = Append(trace, Event("lookup", videoId, index, 0, NoError))
                  /\ pc' = "awaitLookup"
                  /\ UNCHANGED result
  /\ UNCHANGED <<frameVars, playlist, existingVideoIds, index, results,
                 videoInfo, exitCode>>

\* getVideoInfo resolves: not found -> skipped; found -> addVideoToPlaylist is
\* called at once
LookupReturns ==
  /\ pc = "awaitLookup"
  /\ \E items \in ResponseItems :
       LET videoId == newVideoIds[index + 1]
           settled == Await(pending, Request("lookup", videoId, index))
           info    == getVideoInfo(items)
       IN IF videoInfoMissing(info)
          THEN /\ result' = handleVideoNotFound(videoId)
               /\ pending' = settled
               /\ trace' = Append(trace,
                             Event("lookupMissing", videoId, index, 0, NoError))
               /\ pc' = "rateLimit"
               /\ UNCHANGED videoInfo
          ELSE /\ videoInfo' = info
               /\ pending' = settled \cup {Request("insert", videoId, index)}
               /\ trace' = trace \o
                             << Event(IF info.found THEN "lookupFound"
                                      ELSE "lookupMissing",
                                      videoId, index, 0, NoError),
                                Event("insert", videoId, index, 0, NoError) >>
               /\ pc' = "awaitInsert"
               /\ UNCHANGED result
  /\ UNCHANGED <<frameVars, playlist, existingVideoIds, index, results, exitCode>>

\* the continuation of a rejected remote call: the catch block; an error that
\* left processVideoAddition would reject addVideosSequentially and reach the
\* script's handleError, which exits with status 1
Rejected(ev, op) ==
  \E error \in RemoteErrors :
    LET videoId == newVideoIds[index + 1]
        caught  == catchAdditionError(videoId, error)
    IN /\ pending' = Await(pending, Request(op, videoId, index))
       /\ trace' = Append(trace, Event(ev, videoId, index, 0, error))
       /\ IF caught.thrown
          THEN pc' = "done" /\ exitCode' = 1 /\ UNCHANGED result
          ELSE pc' = "rateLimit" /\ result' = caught.value /\ UNCHANGED exitCode

\* getVideoInfo rejects
LookupFails ==
  /\ pc = "awaitLookup"
  /\ Rejected("lookupFailed", "lookup")
  /\ UNCHANGED <<frameVars, playlist, existingVideoIds, index, results, videoInfo>>

\* addVideoToPlaylist resolves: the video is in the playlist
InsertReturns ==
  /\ pc = "awaitInsert"
  /\ LET videoId == newVideoIds[index + 1]
     IN /\ playlist' = playlist \cup {videoId}
        /\ existingVideoIds' = snapshotAfterAdd(existingVideoIds, videoId)
        /\ pending' = Await(pending, Request("insert", videoId, index))
        /\ trace' = Append(trace, Event("insertOk", videoId, index, 0, NoError))
        /\ result' = handleSuccessfulAdd(videoId, titleOrVideoId(videoInfo, videoId))
        /\ pc' = "rateLimit"
  /\ UNCHANGED <<frameVars, index, results, videoInfo, exitCode>>

\* addVideoToPlaylist rejects
InsertFails ==
  /\ pc = "awaitInsert"
  /\ Rejected("insertFailed", "insert")
  /\ UNCHANGED <<frameVars, playlist, existingVideoIds, index, results, videoInfo>>

\* addVideoWithRateLimit after processVideoAddition: sleep unless this was the
\* last candidate; without a sleep the result is returned, pushed, and addNext
\* is called for the next index
RateLimit ==
  /\ pc = "rateLimit"
  /\ LET videoId == newVideoIds[index + 1]
     IN IF shouldSleep(index, Len(newVideoIds))
        THEN /\ pending' = pending \cup {Request("sleep", videoId, index)}
             /\ trace' = Append(trace,
                           Event("delay", videoId, index, RATE_LIMIT_MS, NoError))
             /\ pc' = "awaitSleep"
             /\ UNCHANGED <<index, results, result, videoInfo>>
        ELSE /\ results' = push(results, result)
             /\ index' = index + 1
             /\ result' = NoResult
             /\ videoInfo' = NullVideo
             /\ pc' = "addNext"
             /\ UNCHANGED <<pending, trace>>
  /\ UNCHANGED <<frameVars, playlist, existingVideoIds, exitCode>>

\* the timer fires: the result is returned, pushed, and addNext is called for
\* the next index
SleepSettles ==
  /\ pc = "awaitSleep"
  /\ LET videoId == newVideoIds[index + 1]
     IN /\ pending' = Await(pending, Request("sleep", videoId, index))
        /\ trace' = Append(trace,
                      Event("delayDone", videoId, index, RATE_LIMIT_MS, NoError))
  /\ results' = push(results, result)
  /\ index' = index + 1
  /\ result' = NoResult
  /\ videoInfo' = NullVideo
  /\ pc' = "addNext"
  /\ UNCHANGED <<frameVars, playlist, existingVideoIds, exitCode>>

\* after addNewVideos: calculateStats, printStats, checkForErrors
Finish ==
  /\ pc = "returned"
  /\ printedStats' = RunStats(pipeline, localVideoIds, existingVideoIds,
                       blacklistedVideoIds, results)
  /\ exitCode' = checkForErrors(printedStats')
  /\ pc' = "done"
  /\ UNCHANGED <<inputVars, retryVars, playlist, existingVideoIds, localVideoIds,
                 blacklistedVideoIds, newVideoIds, stageLog, committerVars, libVars>>

\* ------------------------------------------------- retry

\* the ids the run's successful inserts have added
InsertedIds == {trace[k].videoId : k \in {j \in 1..Len(trace) : trace[j].ev = "insertOk"}}

\* an insert that was in flight when the process was killed
InFlightInserts == {r.videoId : r \in {q \in pending : q.op = "insert"}}

\* the process is killed at any point and the script is started again over
\* the same chat source; an insert in flight may or may not have been applied
TerminateAndRetry ==
  /\ run = "first"
  /\ pc # "validate"
  /\ \E applied \in SUBSET InFlightInserts :
       /\ playlist' = playlist \cup applied
       /\ insertedEarlier' = InsertedIds \cup applied
  /\ run' = "retry"
  /\ pc' = "validate"
  /\ blacklistedVideoIds' = {}
  /\ existingVideoIds' = {}
  /\ localVideoIds' = <<>>
  /\ newVideoIds' = <<>>
  /\ stageLog' = <<>>
  /\ printedStats' = NoStats
  /\ index' = 0
  /\ results' = <<>>
  /\ result' = NoResult
  /\ videoInfo' = NullVideo
  /\ pending' = {}
  /\ trace' = <<>>
  /\ exitCode' = -1
  /\ UNCHANGED <<inputVars, libVars>>

\* ------------------------------------------------- specifications

NextCommitter ==
  \/ AddNext
  \/ LookupReturns
  \/ LookupFails
  \/ InsertReturns
  \/ InsertFails
  \/ RateLimit
  \/ SleepSettles

Next ==
  \/ ValidateEnvVars
  \/ InitializeYouTubeClient
  \/ LoadExistingVideos
  \/ InitializeDatabase
  \/ LoadSignalVideos
  \/ LoadLocalVideos
  \/ LoadBlacklist
  \/ CheckNewVideos
  \/ NextCommitter
  \/ Finish

NextRetry ==
  \/ Next
  \/ TerminateAndRetry

NextReconciler == ApplyFindNewVideos /\ UNCHANGED <<runVars, dedupVars, aggVars, utilVars>>

NextDeduplicator ==
  \/ ApplyDedup /\ UNCHANGED <<runVars, recVars, aggVars, utilVars>>
  \/ ApplyDedupAgain /\ UNCHANGED <<runVars, recVars, aggVars, utilVars>>

NextAggregator ==
  \/ AggregateWhole /\ UNCHANGED <<runVars, recVars, dedupVars, utilVars>>
  \/ AggregateFirstBatch /\ UNCHANGED <<runVars, recVars, dedupVars, utilVars>>
  \/ AggregateSecondBatch /\ UNCHANGED <<runVars, recVars, dedupVars, utilVars>>

coreLibVars == <<recVars, dedupVars, aggVars>>

NextExtractor ==
  \/ CallExtractLinks
       /\ UNCHANGED <<runVars, coreLibVars, parseVars, readerVars, statVars, pageVars>>
  \/ CallHasYouTubeLinks
       /\ UNCHANGED <<runVars, coreLibVars, parseVars, readerVars, statVars, pageVars>>
  \/ CallExtractVideoIds
       /\ UNCHANGED <<runVars, coreLibVars, parseVars, readerVars, statVars, pageVars>>

NextParser ==
  \/ ParseLine
       /\ UNCHANGED <<runVars, coreLibVars, extVars, readerVars, statVars, pageVars>>
  \/ ExtractParsed
       /\ UNCHANGED <<runVars, coreLibVars, extVars, readerVars, statVars, pageVars>>

NextReader ==
  \/ OnLine
       /\ UNCHANGED <<runVars, coreLibVars, extVars, parseVars, statVars, pageVars>>
  \/ OnClose
       /\ UNCHANGED <<runVars, coreLibVars, extVars, parseVars, statVars, pageVars>>
  \/ BatchSettles
       /\ UNCHANGED <<runVars, coreLibVars, extVars, parseVars, statVars, pageVars>>

NextStats ==
  ApplyCalculateStats
    /\ UNCHANGED <<runVars, coreLibVars, extVars, parseVars, readerVars, pageVars>>

NextPaging ==
  \/ FetchPage
       /\ UNCHANGED <<runVars, coreLibVars, extVars, parseVars, readerVars, statVars>>
  \/ FetchFails
       /\ UNCHANGED <<runVars, coreLibVars, extVars, parseVars, readerVars, statVars>>
  \/ ReturnVideoIds
       /\ UNCHANGED <<runVars, coreLibVars, extVars, parseVars, readerVars, statVars>>

\* a run of an update script
Spec == Init /\ [][Next]_vars

\* a run that may be killed and started again
SpecRetry == Init /\ [][NextRetry]_vars

\* addVideosSequentially on any candidate list
SpecCommitter == InitCommitter /\ [][NextCommitter]_vars

\* findNewVideos on any input
SpecReconciler == InitReconciler /\ [][NextReconciler]_vars

\* deduplicateMetadata / deduplicateEntries on any input
SpecDeduplicator == InitDeduplicator /\ [][NextDeduplicator]_vars

\* extractYouTubeLinksFromMessages on any batch and any split of it
SpecAggregator == InitAggregator /\ [][NextAggregator]_vars

\* calls of the three extractor functions on the shared patterns
SpecExtractor == InitExtractor /\ [][NextExtractor]_vars

\* parseWhatsAppLine on any line
SpecParser == InitParser /\ [][NextParser]_vars

\* extractYouTubeLinksBatch reading any file
SpecReader == InitBatchReader /\ [][NextReader]_vars

\* calculateStats on any result list
SpecStats == InitStats /\ [][NextStats]_vars

\* getPlaylistVideoIds on any paged playlist
SpecPaging == InitPaging /\ [][NextPaging]_vars

\* the remote answers every page request, and the awaiting call continues
SpecPagingFair == SpecPaging /\ WF_vars(NextPaging)

\* ------------------------------------------------- helpers of the properties

\* s is t with elements left out, the order kept
IsSubsequence(s, t) ==
  \E f \in [1..Len(s) -> 1..Len(t)] :
    /\ \A i \in 1..Len(s) : t[f[i]] = s[i]
    /\ \A i, j \in 1..Len(s) : i < j => f[i] < f[j]

Occurrences(s, x) == Cardinality({i \in 1..Len(s) : s[i] = x})

Range(s) == {s[i] : i \in 1..Len(s)}

TraceIdx == 1..Len(trace)

IssueEvents == {"lookup", "insert", "delay"}

\* the event that settles the request of an issue event
SettlesOf(ev) ==
  CASE ev = "lookup" -> {"lookupFound", "lookupMissing", "lookupFailed"}
    [] ev = "insert" -> {"insertOk", "insertFailed"}
    [] ev = "delay"  -> {"delayDone"}

OpOf(ev) == IF ev = "delay" THEN "sleep" ELSE ev

\* the rejected remote calls of candidate i (0-based)
FailuresOf(i) ==
  {k \in TraceIdx : /\ trace[k].index = i
                    /\ trace[k].ev \in {"lookupFailed", "insertFailed"}}

\* ------------------------------------------------- C1

\* C1: findNewVideos returns exactly the elements of the local sequence that
\* are in neither the remote set nor the exclusion set, in their original
\* order: the output shares no element with either set and is a subsequence
\* of the local sequence.
C1_ReconcilerFilters ==
  recPc = "output" =>
    /\ recOut = SelectSeq(recLocal,
                          LAMBDA id : id \notin recRemote /\ id \notin recExcluded)
    /\ Range(recOut) \cap (recRemote \cup recExcluded) = {}
    /\ IsSubsequence(recOut, recLocal)
    /\ \A id \in Range(recLocal) :
         id \notin (recRemote \cup recExcluded) => id \in Range(recOut)

\* scenario C of the specification
C1_Witness ==
  /\ recPc = "output"
  /\ recLocal = <<"a", "b", "c">>
  /\ recRemote = {"b"}
  /\ recExcluded = {"c"}
  /\ recOut = <<"a">>

\* ------------------------------------------------- C2

\* C2: in every pipeline (Signal basic, Signal with metadata, WhatsApp) no
\* insert call is ever issued for an identifier of the exclusion list.
C2_NoInsertOfListedAnyPipeline ==
  \A k \in TraceIdx :
    trace[k].ev = "insert" => trace[k].videoId \notin blacklistFile.videoIds

\* ------------------------------------------------- C3

\* C3 as stated: each identifier appears at most once in the Reconciler's
\* output, also when the local sequence has repeats.
C3_OutputHasNoRepeats ==
  recPc = "output" =>
    \A i, j \in 1..Len(recOut) : i # j => recOut[i] # recOut[j]

\* C3 amended: the Reconciler does not dedupe: an identifier that is in
\* neither set occurs in the output as often as in the local sequence, any
\* other not at all; so the output has no repeats when the local sequence has
\* none.
C3_OutputKeepsMultiplicity ==
  recPc = "output" =>
    /\ \A id \in VideoIds :
         Occurrences(recOut, id) =
           IF id \notin (recRemote \cup recExcluded)
           THEN Occurrences(recLocal, id) ELSE 0
    /\ (\A id \in VideoIds : Occurrences(recLocal, id) <= 1)
         => (\A id \in VideoIds : Occurrences(recOut, id) <= 1)

C3_Witness ==
  /\ recPc = "output"
  /\ recLocal = <<"a", "b", "a">>
  /\ recRemote = {"b"}
  /\ recOut = <<"a", "a">>

\* ------------------------------------------------- C4

\* C4: per-item errors never leave the Committer: result i belongs to candidate
\* i, the loop is never stuck or ended before the last candidate, and
\* addVideosSequentially returns exactly n results for n candidates, whatever
\* lookups and inserts fail.
C4_EveryCandidateGetsAResult ==
  /\ Len(results) = index
  /\ index <= Len(newVideoIds)
  /\ \A i \in 1..Len(results) :
       /\ results[i].videoId = newVideoIds[i]
       /\ results[i].status \in {"added", "skipped", "error"}
  /\ pc \in {"returned", "done"} => Len(results) = Len(newVideoIds)
  /\ pc \notin {"returned", "done"} => ENABLED NextCommitter

\* the first candidate's lookup and the second candidate's insert failed, and
\* a third result would follow: here both are recorded as errors
C4_Witness ==
  /\ pc = "returned"
  /\ Len(results) = 2
  /\ results[1].status = "error"
  /\ results[2].status = "error"
  /\ \E k \in FailuresOf(0) : trace[k].ev = "lookupFailed"
  /\ \E k \in FailuresOf(1) : trace[k].ev = "insertFailed"

\* ------------------------------------------------- C5

\* C5: at most one lookup, insert or delay is in flight; every request issued
\* is settled before the next is issued; candidates are processed in list
\* order.
C5_OneRequestAtATime ==
  /\ Cardinality(pending) <= 1
  /\ \A k \in TraceIdx :
       /\ trace[k].videoId = newVideoIds[trace[k].index + 1]
       /\ k < Len(trace) => trace[k].index <= trace[k + 1].index
       /\ (trace[k].ev \in IssueEvents /\ k < Len(trace)) =>
            /\ trace[k + 1].ev \in SettlesOf(trace[k].ev)
            /\ trace[k + 1].index = trace[k].index
       /\ (trace[k].ev \in IssueEvents /\ k = Len(trace)) =>
            pending = {Request(OpOf(trace[k].ev), trace[k].videoId, trace[k].index)}
  /\ (trace = <<>> \/ trace[Len(trace)].ev \notin IssueEvents) => pending = {}

\* the second candidate's insert is in flight after the first candidate's
\* lookup, insert and delay have settled
C5_Witness ==
  /\ pc = "awaitInsert"
  /\ index = 1
  /\ Cardinality(pending) = 1
  /\ \E k \in TraceIdx : trace[k].ev = "delayDone" /\ trace[k].index = 0
  /\ \E k \in TraceIdx : trace[k].ev = "insertOk" /\ trace[k].index = 0

\* ------------------------------------------------- C6

DelaysOf(i) == {k \in TraceIdx : trace[k].ev = "delay" /\ trace[k].index = i}

\* C6: a delay of 1000 ms follows every candidate but the last, whatever its
\* outcome, after the candidate's calls and before the next candidate's first
\* step; n candidates make n - 1 delays and none follows the last.
C6_Pacing ==
  /\ \A k \in TraceIdx :
       trace[k].ev = "delay" =>
         /\ trace[k].ms = 1000
         /\ trace[k].index < Len(newVideoIds) - 1
         /\ \A j \in TraceIdx :
              /\ (trace[j].index = trace[k].index /\ j # k) =>
                   IF trace[j].ev = "delayDone" THEN j = k + 1 ELSE j < k
              /\ trace[j].index > trace[k].index =>
                   (j > k + 1 /\ trace[k + 1].ev = "delayDone")
  /\ \A i \in 0..(index - 1) :
       Cardinality(DelaysOf(i)) = IF i < Len(newVideoIds) - 1 THEN 1 ELSE 0
  /\ (pc = "returned" /\ Len(newVideoIds) >= 1) =>
       Cardinality({k \in TraceIdx : trace[k].ev = "delay"}) = Len(newVideoIds) - 1

\* two candidates, the first skipped as blacklisted: one delay, after it
C6_Witness ==
  /\ pc = "returned"
  /\ Len(newVideoIds) = 2
  /\ Includes(results[1].message, "blacklisted")
  /\ results[2].status = "added"
  /\ Cardinality(DelaysOf(0)) = 1
  /\ DelaysOf(1) = {}

\* ------------------------------------------------- C7

\* C7: an insert call is issued only right after the lookup of the same
\* candidate returned a record; a candidate whose lookup reports it missing is
\* skipped as not found and no insert call is issued for it.
C7_InsertOnlyAfterFound ==
  /\ \A k \in TraceIdx :
       trace[k].ev = "insert" =>
         /\ k > 1
         /\ trace[k - 1].ev = "lookupFound"
         /\ trace[k - 1].index = trace[k].index
         /\ trace[k - 1].videoId = trace[k].videoId
  /\ \A k \in TraceIdx :
       trace[k].ev = "lookupMissing" =>
         /\ \A j \in TraceIdx :
              trace[j].index = trace[k].index => trace[j].ev # "insert"
         /\ trace[k].index < Len(results) =>
              /\ results[trace[k].index + 1].status = "skipped"
              /\ Includes(results[trace[k].index + 1].message, "found")

\* scenario D of the specification
C7_Witness ==
  /\ pc = "returned"
  /\ newVideoIds = <<"a">>
  /\ \E k \in TraceIdx : trace[k].ev = "lookupMissing"
  /\ Len(results) = 1
  /\ results[1].status = "skipped"
  /\ \A k \in TraceIdx : trace[k].ev # "insert"

\* ------------------------------------------------- C8

\* C8: a remote call rejected with status code 403 is always recorded as an
\* error, never as a skip, whatever its message; the loop continues and the
\* run exits non-zero.
C8_PermissionDeniedIsError ==
  /\ \A i \in 1..Len(results) :
       (\E k \in FailuresOf(i - 1) : trace[k].error.code = 403) =>
         results[i].status = "error"
  /\ (pc = "done" /\ \E k \in TraceIdx : /\ trace[k].ev \in {"lookupFailed", "insertFailed"}
                                       /\ trace[k].error.code = 403) =>
       exitCode = 1

\* ------------------------------------------------- C9

C9_IsConflict(error) ==
  \/ error.code = 409
  \/ (error.hasMessage /\ \E i \in 1..Len(error.message) : error.message[i] = "duplicate")

\* C9: an insert rejected as conflict (code 409, or "duplicate" in the
\* message) is recorded as skipped, never as an error; a run whose only
\* failures are such conflicts exits with status 0.
C9_ConflictIsSkip ==
  /\ \A i \in 1..Len(results) :
       (\E k \in FailuresOf(i - 1) :
          trace[k].ev = "insertFailed" /\ C9_IsConflict(trace[k].error)) =>
         /\ results[i].status = "skipped"
         /\ results[i].message = <<"Already", "exists", newVideoIds[i]>>
  /\ ( /\ pc = "done"
       /\ Len(newVideoIds) > 0
       /\ \A k \in TraceIdx :
            trace[k].ev \in {"lookupFailed", "insertFailed"} =>
              (trace[k].ev = "insertFailed" /\ C9_IsConflict(trace[k].error)) )
       => exitCode = 0

\* a finished run with an insert rejected with "duplicate" in the message only
C9_Witness ==
  /\ pc = "done"
  /\ exitCode = 0
  /\ \E k \in TraceIdx :
       /\ trace[k].ev = "insertFailed"
       /\ trace[k].error.code = 0
       /\ C9_IsConflict(trace[k].error)
  /\ \E k \in TraceIdx :
       /\ trace[k].ev = "insertFailed"
       /\ trace[k].error.code = 409

\* ------------------------------------------------- C10

\* C10: after the Committer has run the process exits non-zero exactly when a
\* result has status error; skipped results do not change the exit status.
C10_ExitStatusIffError ==
  /\ pc # "done" => exitCode = -1
  /\ (pc = "done" /\ Len(newVideoIds) > 0) =>
       /\ exitCode \in {0, 1}
       /\ exitCode # 0 <=> \E i \in 1..Len(results) : results[i].status = "error"

\* a finished run with skipped results only exits with status 0
C10_Witness ==
  /\ pc = "done"
  /\ exitCode = 0
  /\ Len(results) = 2
  /\ \A i \in 1..Len(results) : results[i].status = "skipped"

\* ------------------------------------------------- C11

LogCount(ev) == Cardinality({k \in 1..Len(stageLog) : stageLog[k] = ev})

Reconciled == LogCount("reconcile") > 0

\* C11: when the Reconciler's result is empty the Committer is not invoked:
\* no lookup, insert or delay is issued, the statistics printed are those of
\* an empty result list, and the run ends with exit status 0.
C11_NothingNewIsNoOp ==
  (Reconciled /\ newVideoIds = <<>>) =>
    /\ pc = "done"
    /\ exitCode = 0
    /\ trace = <<>> /\ pending = {} /\ results = <<>> /\ index = 0
    /\ printedStats # NoStats
    /\ printedStats.total = Len(localVideoIds)
    /\ printedStats.previouslyInPlaylist = Cardinality(existingVideoIds)
    /\ printedStats.newVideosAdded = 0
    /\ printedStats.skipped = 0
    /\ printedStats.errors = 0
    /\ printedStats.finalPlaylistSize = Cardinality(existingVideoIds)

\* both extracted videos are in the playlist already
C11_Witness ==
  /\ Reconciled
  /\ newVideoIds = <<>>
  /\ pc = "done"
  /\ Len(localVideoIds) = 2
  /\ Range(localVideoIds) \subseteq existingVideoIds
  /\ printedStats.total = 2

\* ------------------------------------------------- C12

\* C12: a run started after an earlier run over the same local identifiers was
\* terminated issues no insert call for an identifier the earlier run had
\* inserted.
C12_RetryInsertsNothingTwice ==
  run = "retry" =>
    \A k \in TraceIdx :
      trace[k].ev = "insert" => trace[k].videoId \notin insertedEarlier

\* the first run was killed after one insertion; the retry inserted the rest
C12_Witness ==
  /\ run = "retry"
  /\ pc = "done"
  /\ insertedEarlier # {}
  /\ insertedEarlier \subseteq Range(localVideoIds)
  /\ InsertedIds # {}

\* ------------------------------------------------- C13

EnvIncomplete ==
  \/ ~env.playlistId
  \/ (pipeline # "whatsapp" /\ ~env.groupName)

\* C14: in a run where a required configuration value (playlist identifier,
\* Signal group name) is missing, no remote call is made and no chat source
\* is read before the run aborts.
C14_ConfigurationCheckedFirst ==
  EnvIncomplete =>
    /\ LogCount("listPlaylist") = 0
    /\ LogCount("dbOpen") = 0
    /\ LogCount("readChat") = 0
    /\ trace = <<>>

\* ------------------------------------------------- C15

\* C15: the playlist's identifiers are listed once per run; the set fetched is
\* not changed by successful additions, and it is the set the Reconciler
\* filtered with and the set the statistics count.
C15_RemoteStateIsSnapshot ==
  /\ LogCount("listPlaylist") <= 1
  /\ LogCount("playlistListed") = 1 =>
       /\ existingVideoIds = playlist \ InsertedIds
       /\ InsertedIds \cap existingVideoIds = {}
  /\ Reconciled =>
       newVideoIds = SelectSeq(localVideoIds,
                               LAMBDA id : /\ id \notin existingVideoIds
                                           /\ id \notin blacklistedVideoIds)
  /\ printedStats # NoStats =>
       /\ printedStats.previouslyInPlaylist = Cardinality(existingVideoIds)
       /\ printedStats.finalPlaylistSize =
            Cardinality(existingVideoIds) + Cardinality(InsertedIds)

\* a finished run that added a video to a playlist that was not empty
C15_Witness ==
  /\ pc = "done"
  /\ InsertedIds # {}
  /\ existingVideoIds # {}
  /\ playlist # existingVideoIds
  /\ printedStats # NoStats

\* ------------------------------------------------- C16

\* C16: a candidate that is in the exclusion set gets a skipped (blacklisted)
\* result and neither a lookup nor an insert call is issued for it.
C16_BlacklistedCandidateIsSkipped ==
  /\ \A k \in TraceIdx :
       trace[k].ev \in {"lookup", "insert"} =>
         trace[k].videoId \notin blacklistedVideoIds
  /\ \A i \in 1..Len(results) :
       newVideoIds[i] \in blacklistedVideoIds =>
         /\ results[i].status = "skipped"
         /\ results[i].message = <<"Video", newVideoIds[i], "is", "blacklisted", "skipping">>
         /\ \A k \in TraceIdx :
              trace[k].index = i - 1 => trace[k].ev \in {"delay", "delayDone"}

\* the second of two candidates is blacklisted, the first was added
C16_Witness ==
  /\ pc = "returned"
  /\ Len(newVideoIds) = 2
  /\ newVideoIds[2] \in blacklistedVideoIds
  /\ newVideoIds[1] \notin blacklistedVideoIds
  /\ results[1].status = "added"
  /\ results[2].status = "skipped"

\* ------------------------------------------------- C17

\* the first index of the input whose entry has the key
FirstWithKey(data, key) ==
  CHOOSE i \in 1..Len(data) :
    /\ dedupKey(data[i]) = key
    /\ \A j \in 1..(i - 1) : dedupKey(data[j]) # key

C18_OnePerVideoAndUser ==
  (dedupVariant = "deduplicateEntries" /\ dedupPc \in {"once", "twice"}) =>
    /\ \A i, j \in 1..Len(dedupOut) :
         (i # j /\ dedupOut[i].videoId = dedupOut[j].videoId)
           => dedupOut[i].userId # dedupOut[j].userId
    /\ \A i \in 1..Len(dedupOut) : \A j \in 1..Len(dedupIn) :
         ( /\ dedupIn[j].videoId = dedupOut[i].videoId
           /\ dedupIn[j].userId = dedupOut[i].userId )
           => dedupOut[i].datetime <= dedupIn[j].datetime

\* ------------------------------------------------- C19

\* C19: deduplicating the output of a deduplication changes nothing, for
\* deduplicateMetadata and for deduplicateEntries.
C19_DedupIdempotent ==
  dedupPc = "twice" => dedupAgain = dedupOut

\* an input with a repeat, deduplicated twice
C19_Witness ==
  /\ dedupPc = "twice"
  /\ dedupVariant = "deduplicateEntries"
  /\ Len(dedupIn) = 3
  /\ Len(dedupOut) = 2
  /\ dedupAgain = dedupOut

\* ------------------------------------------------- C20

\* the lines of a body that hold a watch link
WatchLines(body) ==
  {p \in 1..Len(body) :
     /\ body[p].kind = "watch"
     /\ \A q \in 1..(p - 1) :
          body[q].kind = "watch" => \E e \in q..p : body[e].kind = "newline"}

\* the matches of a body: every short link, and one per line with a watch link
MatchCount(body) ==
  Cardinality({p \in 1..Len(body) : body[p].kind = "short"})
    + Cardinality(WatchLines(body))

RECURSIVE TotalMatches(_)
TotalMatches(messages) ==
  IF messages = <<>> THEN 0
  ELSE MatchCount(Head(messages).body) + TotalMatches(Tail(messages))

\* C20: extractYouTubeLinksFromMessages of b1 ++ b2 is its result for b1
\* followed by its result for b2; it keeps every match, repeats included, in
\* message order.
C20_AggregationRespectsConcatenation ==
  aggPc = "done" =>
    /\ aggWhole = aggFirst \o aggSecond
    /\ Len(aggWhole) = TotalMatches(aggMessages)
    /\ Len(aggFirst) = TotalMatches(FirstBatch)
    /\ Len(aggSecond) = TotalMatches(SecondBatch)

\* two messages sharing the same video, split between them
C20_Witness ==
  /\ aggPc = "done"
  /\ Len(aggMessages) = 2
  /\ aggSplit = 1
  /\ aggMessages[1].datetime = 200
  /\ aggMessages[2].datetime = 100
  /\ Len(aggFirst) = 2
  /\ Len(aggSecond) = 1
  /\ aggFirst[1].videoId = aggSecond[1].videoId
  /\ Len(aggWhole) = 3


\* ------------------------------------------------- C21

\* the patterns as they are right after the module was loaded
FreshPatterns == <<0, 0>>

\* C21: a call of an extractor function on a message returns what the same
\* call returns with fresh patterns, whatever calls were made before it, and
\* every scan of a call starts with the pattern's lastIndex at 0.
C21_PatternStateNeverLeaks ==
  \A i \in 1..Len(extCalls) :
    /\ extCalls[i] = [CallRecord(extCalls[i].fn, extCalls[i].message, FreshPatterns)
                        EXCEPT !.before = extCalls[i].before]
    /\ \A k \in 1..Len(extCalls[i].cursors) : extCalls[i].cursors[k] = 0

\* a hasYouTubeLinks test left a cursor advanced, and the next call found the
\* links of its message all the same
C21_Witness ==
  /\ Len(extCalls) = 2
  /\ extCalls[1].fn = "hasYouTubeLinks"
  /\ extCalls[1].found
  /\ extCalls[2].before # FreshPatterns
  /\ extCalls[2].fn = "extractYouTubeLinksFromMessages"
  /\ Len(extCalls[2].links) = 2

\* ------------------------------------------------- C22

\* the positions of the links in a message body
LinkPositions(body) ==
  {p \in 1..Len(body) : body[p].kind \in {"short", "watch"}}

\* C22: a message with two links yields two LinkRecords, one for each link's
\* identifier.
C22_OneRecordPerLink ==
  \A i \in 1..Len(extCalls) :
    (/\ extCalls[i].fn = "extractYouTubeLinksFromMessages"
     /\ Cardinality(LinkPositions(extCalls[i].message.body)) = 2)
    => /\ Len(extCalls[i].links) = 2
       /\ \A p \in LinkPositions(extCalls[i].message.body) :
            \E k \in 1..Len(extCalls[i].links) :
              extCalls[i].links[k].videoId = extCalls[i].message.body[p].id

\* ------------------------------------------------- C23

\* the author field holds a system-notice phrase
AuthorIsSystemNotice(userStr) ==
  \E i \in 1..Len(userStr) : userStr[i] \in SYSTEM_MESSAGE_PATTERNS

\* C23: with the suppression flag set, a line that matches the header grammar
\* is suppressed exactly when its author field is a system-notice phrase, and
\* the links of a line from an ordinary author are extracted.
C23_SuppressedIffSystemAuthor ==
  (parsePc \in {"parsed", "extracted"} /\ parseSkip /\ parseLine.kind = "message")
  => /\ parseOut.isNull <=> AuthorIsSystemNotice(parseLine.userStr)
     /\ (parsePc = "extracted" /\ ~AuthorIsSystemNotice(parseLine.userStr))
        => Len(parseLinks) = Cardinality(LinkPositions(parseLine.messageContent))


\* ------------------------------------------------- C24

RECURSIVE DeliveredLines(_)
\* the line numbers handed to the batch processor, call after call
DeliveredLines(batches) ==
  IF batches = <<>> THEN <<>>
  ELSE Head(batches).batch \o DeliveredLines(Tail(batches))

\* C24: the batch processor gets every line of the file exactly once, in file
\* order, in batches of at most batchSize lines, no batch twice, and the
\* promise settles only after the last batch was processed.
C24_EveryLineDeliveredOnce ==
  /\ \A i \in 1..Len(rdBatches) : Len(rdBatches[i].batch) <= rdBatchSize
  /\ DeliveredLines(rdBatches) = [i \in 1..Len(DeliveredLines(rdBatches)) |-> i]
  /\ Len(DeliveredLines(rdBatches)) <= rdEmitted
  /\ \A i, j \in 1..Len(rdBatches) :
       i # j => rdBatches[i].batchNumber # rdBatches[j].batchNumber
  /\ rdResolved => /\ Len(DeliveredLines(rdBatches)) = Len(rdLines)
                   /\ rdAwaiting = <<>>

\* ------------------------------------------------- C28

\* C28: for the same file and options, extractYouTubeLinksBatch returns the
\* youTubeLinks, totalMessages and youTubeMessages that
\* extractYouTubeLinksStream returns, for every batch size.
C28_BatchEqualsStream ==
  rdResolved =>
    [totalMessages |-> totalMessages, youTubeMessages |-> youTubeMessages,
     youTubeLinks |-> allYouTubeLinks]
      = extractYouTubeLinksStream(rdLines, rdOptions)


\* ------------------------------------------------- C26

\* C26: blacklistedVideos + newVideosAdded + skipped + errors is the number
\* of results: every result is counted in exactly one of the four counters,
\* whatever titles and error messages the results carry.
C26_StatsPartitionResults ==
  statPc = "output" =>
    statOut.blacklistedVideos + statOut.newVideosAdded + statOut.skipped
      + statOut.errors = Len(statResults)

\* ------------------------------------------------- C27

\* C27: two records have the same deduplication key only if they have the
\* same videoId, userId (null differs from every string) and datetime, so a
\* record that differs from every other record survives the deduplication.
C27_KeysInjective ==
  dedupPc \in {"once", "twice"} =>
    /\ \A i, j \in 1..Len(dedupIn) :
         dedupKey(dedupIn[i]) = dedupKey(dedupIn[j]) => dedupIn[i] = dedupIn[j]
    /\ \A i \in 1..Len(dedupIn) :
         (\A j \in 1..Len(dedupIn) : j # i => dedupIn[j] # dedupIn[i])
           => \E k \in 1..Len(dedupOut) : dedupOut[k] = dedupIn[i]


\* ------------------------------------------------- C25

\* how often a request of the kind ev was issued for videoId
IssuedFor(ev, videoId) ==
  Cardinality({k \in TraceIdx : trace[k].ev = ev /\ trace[k].videoId = videoId})

\* C25: in every pipeline the Committer's list holds no identifier twice and
\* none of the remote snapshot, and a run issues at most one lookup and at
\* most one insert per identifier.
C25_EachCandidateHandedOnce ==
  /\ \A i, j \in 1..Len(newVideoIds) : i # j => newVideoIds[i] # newVideoIds[j]
  /\ \A i \in 1..Len(newVideoIds) : newVideoIds[i] \notin existingVideoIds
  /\ \A videoId \in VideoIds :
       /\ IssuedFor("lookup", videoId) <= 1
       /\ IssuedFor("insert", videoId) <= 1

\* the chat repeats a link, the playlist already has another one, and the run
\* went through the Committer
C25_Witness ==
  /\ pc = "done"
  /\ \E i, j \in 1..Len(extractedVideoIds) :
       i # j /\ extractedVideoIds[i] = extractedVideoIds[j]
              /\ IssuedFor("insert", extractedVideoIds[i]) = 1
  /\ existingVideoIds # {}

\* ------------------------------------------------- C29

\* C29: with nothing but the run changing the playlist, the printed
\* finalPlaylistSize is the number of distinct identifiers in the playlist
\* after the run, and newVideosAdded is the number of inserts that succeeded.
C29_FinalSizeIsPlaylistSize ==
  (pc = "done" /\ printedStats # NoStats) =>
    /\ printedStats.finalPlaylistSize = Cardinality(playlist)
    /\ printedStats.newVideosAdded
         = Cardinality({k \in TraceIdx : trace[k].ev = "insertOk"})

\* a run that added one video, skipped or failed on another, and printed
C29_Witness ==
  /\ pc = "done"
  /\ printedStats # NoStats
  /\ printedStats.newVideosAdded = 1
  /\ Len(results) = 2
  /\ printedStats.previouslyInPlaylist = 1


\* ------------------------------------------------- C30

\* the page a request with this token is answered with
PageOf(pageToken) == IF pageToken = NoToken THEN 1 ELSE pageToken

RECURSIVE ItemsOfPages(_)
\* the items of the pages that answered the requests, in request order
ItemsOfPages(requests) ==
  IF requests = <<>> THEN <<>>
  ELSE pgRemote[PageOf(Head(requests))].items \o ItemsOfPages(Tail(requests))

RECURSIVE ReachesLastPage(_, _)
\* following the tokens from this page leads to a page without a token
ReachesLastPage(page, fuel) ==
  IF pgRemote[page].nextPageToken = NoToken THEN TRUE
  ELSE IF fuel = 0 THEN FALSE
  ELSE ReachesLastPage(pgRemote[page].nextPageToken, fuel - 1)

RemoteEnds == pgPc # "off" /\ ReachesLastPage(1, Len(pgRemote))

\* the listing so far follows the tokens
C30_FollowsTokens ==
  /\ \A i \in 1..Len(pgRequests) :
       pgRequests[i] = IF i = 1 THEN NoToken
                       ELSE pgRemote[PageOf(pgRequests[i - 1])].nextPageToken
  /\ \A i \in 2..Len(pgRequests) : pgRequests[i] # NoToken
  /\ pgPc \in {"listed", "done"} =>
       /\ pgRequests # <<>>
       /\ pgRemote[PageOf(pgRequests[Len(pgRequests)])].nextPageToken = NoToken
       /\ accumulated = ItemsOfPages(pgRequests)
  /\ pgPc = "done" =>
       pgVideoIds = {accumulated[i].videoId : i \in 1..Len(accumulated)}
                      \ {NoVideoId}

\* C30: fetchAllPages requests the first page without a token, then one page
\* per returned nextPageToken, stops at the first page without one and
\* returns the items of all fetched pages in page order; getPlaylistVideoIds
\* returns the set of their video identifiers; and the listing ends (with the
\* set, or with the error of a rejected request) whenever the tokens of the
\* remote lead to a page without a token.
C30_ListingFollowsPageTokens ==
  /\ []C30_FollowsTokens
  /\ (RemoteEnds ~> (pgPc \in {"done", "failed"}))

\* two pages were fetched, and an id listed on both collapsed in the set
C30_Witness ==
  /\ pgPc = "done"
  /\ Len(pgRequests) = 2
  /\ Len(accumulated) = 3
  /\ accumulated[1].videoId = "a"
  /\ Cardinality(pgVideoIds) = 2

====
